---- MODULE Spec2Model ----
(***************************************************************************)
(* Task persistence, routing, selection and dispatch of hallmmaos: the     *)
(* JSON task repository with its paged query                               *)
(* (src/data/json_task_repository.py), the task data service that owns an  *)
(* active and an archive repository (src/services/task_data_service.py),   *)
(* the scheduling strategy that picks the tasks to run                     *)
(* (src/scheduler/simple_strategy.py) and the scheduler that hands them    *)
(* out (src/scheduler/simple_scheduler.py).                                *)
(*                                                                         *)
(* A repository's _tasks is a Python dict: a mapping that keeps insertion  *)
(* order.  It is modelled as a sequence of Task records with pairwise      *)
(* different task_id.  Every call is one atomic step, except where a      *)
(* specification below says otherwise; the variables lastOp, lastArg,      *)
(* lastIn, exc and ret record the last call, where its id was stored when  *)
(* it was made, and how it ended.                                          *)
(*                                                                         *)
(* Spec and SpecRepo are the service and a repository under add, update,   *)
(* get and delete.  SpecQuery and SpecFilter read a repository loaded from *)
(* its file page by page.  SpecStrategy selects from a candidate list      *)
(* while the prerequisites change; SpecCap selects from lists longer than  *)
(* the cap.  SpecScheduler is the scheduler under submit_task, update_task *)
(* and get_next_task.  SpecReopen reconstructs a repository from its file; *)
(* SpecFault does so on a disk whose writes may fail.  SpecFederated reads *)
(* both repositories of a service with query_all_tasks.  SpecMigration     *)
(* shows the state between the two repository writes of update_task and    *)
(* SpecWrites keeps the latest write of every id.  SpecDispatch is the     *)
(* scheduler with the history of what it handed out, SpecUrgency adds      *)
(* urgent tasks, SpecBacklog starts from more stored tasks than a          *)
(* selection holds and SpecPeers runs two schedulers on one service.       *)
(* SpecEventual lets the callers fall silent while get_next_task, as a     *)
(* call step and a return step, is called for ever.                        *)
(***************************************************************************)
EXTENDS Integers, Sequences, FiniteSets, TLC

\* Number of distinct task ids the callers use.
NumTasks == 2

TaskIds == 1..NumTasks

\* class TaskStatus(Enum): a member is written as its value.
TaskStatus == {"NEW", "PENDING", "RUNNING", "COMPLETED", "FAILED", "CANCELLED"}

\* The priority of the tasks the callers build (the test fixtures' value,
\* inside Field(..., ge=1, le=10)).  Neither the repository nor the data
\* service reads it; the records a caller supplies differ in task_id and
\* status.
FixturePriority == 5

\* The fixtures' agent_id, and the time the fixtures' tasks are created at.
FixtureAgent == "A-001"
FixtureCreatedAt == 10

\* class Task(BaseModel), restricted to the fields the repositories, the data
\* service and the strategy read.  created_at is a time in seconds;
\* correlation_ids and blocked_by are lists that are only searched and
\* iterated, written as sets.
TaskWith(id, st, pr, ca, ag, co, bl) ==
    [task_id |-> id, status |-> st, priority |-> pr, created_at |-> ca,
     agent_id |-> ag, correlation_ids |-> co, blocked_by |-> bl]

\* A Task as the fixtures build it: no correlation id, no prerequisite.
Task(id, st, pr) == TaskWith(id, st, pr, FixtureCreatedAt, FixtureAgent, {}, {})

\* Every Task the callers pass.
Tasks == {Task(id, st, FixturePriority) : id \in TaskIds, st \in TaskStatus}

\* Python's None where a Task is expected (Optional[Task]).
None == TaskWith(0, "None", 0, 0, "None", {}, {})

\* The argument record of a call that takes only a task_id.
IdArg(id) == TaskWith(id, "None", 0, 0, "None", {}, {})

VARIABLES
    active,       \* TaskDataService._active_repo._tasks
    activeFile,   \* the file behind the active repository
    archive,      \* TaskDataService._archive_repo._tasks
    archiveFile,  \* the file behind the archive repository
    repo,         \* _tasks of a JsonTaskRepository used on its own
    repoFile,     \* the file behind it
    lastOp,       \* name of the last call
    lastArg,      \* its argument (IdArg(id) for a call that takes an id)
    lastIn,       \* the stores that held the argument's id when it was made
    exc,          \* the exception it raised, "none" if it returned
    ret,          \* the Task it returned, None otherwise
    qArgs,        \* the arguments of the last JsonTaskRepository.query call
    qKey,         \* its exclusive_start_key
    qPage,        \* the page it returned
    qNext,        \* the next_key it returned
    qAcc,         \* the pages returned since the last call without a cursor
    candidates,         \* the pending_tasks of the select_tasks calls
    available,          \* its available_ram_mb and available_cpu_cores
    selected,           \* the list it returned
    next_tasks_to_run,  \* SimpleScheduler._next_tasks_to_run
    calls,              \* what the last get_next_task call asked of its collaborators
    peer_tasks_to_run,  \* _next_tasks_to_run of a second SimpleScheduler
    batch,        \* the tasks the last refill that selected any selected
    served,       \* the tasks get_next_task returned since, that refill's first
    dispatched,   \* <<scheduler, task_id>> for each task a scheduler returned
                  \* and no update_task call has set to NEW or PENDING since
    quiet,        \* the callers have stopped submitting and updating
    pc,           \* "idle", or the call under way: "delete" while update_task
                  \* has its second write to make, "get_next_task"
    written       \* for each id, the task of the last add_task or update_task
                  \* call that returned (None when there was none)

vars == <<active, activeFile, archive, archiveFile, repo, repoFile,
          lastOp, lastArg, lastIn, exc, ret,
          qArgs, qKey, qPage, qNext, qAcc,
          candidates, available, selected, next_tasks_to_run, calls,
          peer_tasks_to_run, batch, served, dispatched, quiet, pc, written>>

svcVars == <<active, activeFile, archive, archiveFile>>
repoVars == <<repo, repoFile>>
queryVars == <<qArgs, qKey, qPage, qNext, qAcc>>
stratVars == <<candidates, available, selected>>
histVars == <<peer_tasks_to_run, batch, served, dispatched, quiet, pc, written>>
schedVars == <<next_tasks_to_run, calls, histVars>>

----------------------------------------------------------------------------
(* Python dict, in insertion order *)

\* The keys of the dict.
Keys(d) == {d[i].task_id : i \in DOMAIN d}

\* key in d
Contains(d, id) == \E i \in DOMAIN d : d[i].task_id = id

IndexOf(d, id) == CHOOSE i \in DOMAIN d : d[i].task_id = id

\* d.get(key)
DictGet(d, id) == IF Contains(d, id) THEN d[IndexOf(d, id)] ELSE None

\* d[key] = value: an existing key keeps its position, a new key goes last.
DictSet(d, t) ==
    IF Contains(d, t.task_id)
    THEN [d EXCEPT ![IndexOf(d, t.task_id)] = t]
    ELSE Append(d, t)

IsNot(id, t) == t.task_id # id

\* del d[key]
DictDel(d, id) == SelectSeq(d, LAMBDA t : IsNot(id, t))

----------------------------------------------------------------------------
(* JsonTaskRepository *)

\* The backing file before the first save.
NoFile == [exists |-> FALSE, data |-> <<>>]

\* The JSON form of a datetime: its ISO 8601 string.
IsoFormat(dt) == <<"iso", dt>>

\* task.model_dump(mode='json'): the enum is written as its value, which is
\* its name, and the datetime as its ISO string.
ModelDump(t) ==
    [task_id |-> t.task_id, status |-> t.status, priority |-> t.priority,
     created_at |-> IsoFormat(t.created_at), agent_id |-> t.agent_id,
     correlation_ids |-> t.correlation_ids, blocked_by |-> t.blocked_by]

\* _save_to_file: the whole collection is rewritten.
SaveToFile(tasks) ==
    [exists |-> TRUE, data |-> [i \in DOMAIN tasks |-> ModelDump(tasks[i])]]

\* A JsonTaskRepository object: the _tasks cache and the file behind it.
Repository(tasks, file) == [tasks |-> tasks, file |-> file]

\* How a repository call ends: the object afterwards and the exception that
\* left the call ("none" when it returns).
Outcome(self, e) == [self |-> self, exc |-> e]

\* self._tasks[task.task_id] = task; self._save_to_file()
Store(self, task) ==
    LET tasks == DictSet(self.tasks, task)
    IN  Repository(tasks, SaveToFile(tasks))

\* add without the duplicate check: an existing record is overwritten.
add_overwriting(self, task) == Outcome(Store(self, task), "none")

\* JsonTaskRepository.add
add(self, task) ==
    IF Contains(self.tasks, task.task_id)
    THEN Outcome(self, "ValueError")
    ELSE Outcome(Store(self, task), "none")

\* JsonTaskRepository.get_by_id
get_by_id(self, task_id) == DictGet(self.tasks, task_id)

\* update without the presence check: an absent id is inserted.
update_or_insert(self, task) == Outcome(Store(self, task), "none")

\* JsonTaskRepository.update
update(self, task) ==
    IF ~Contains(self.tasks, task.task_id)
    THEN Outcome(self, "KeyError")
    ELSE Outcome(Store(self, task), "none")

\* delete_by_id without the presence guard: del raises KeyError on a miss.
delete_by_id_strict(self, task_id) ==
    IF Contains(self.tasks, task_id)
    THEN LET tasks == DictDel(self.tasks, task_id)
         IN  Outcome(Repository(tasks, SaveToFile(tasks)), "none")
    ELSE Outcome(self, "KeyError")

\* JsonTaskRepository.delete_by_id
delete_by_id(self, task_id) ==
    IF Contains(self.tasks, task_id)
    THEN LET tasks == DictDel(self.tasks, task_id)
         IN  Outcome(Repository(tasks, SaveToFile(tasks)), "none")
    ELSE Outcome(self, "none")

\* The disk at the moment of a save: sound, or failing when the parent
\* directory is made, or failing when the file is opened for writing.
Sound == "sound"
Disks == {Sound, "mkdir fails", "open fails"}

\* _save_to_file on such a disk.  mkdir is called outside the try block, so
\* its OSError leaves the call; the IOError of open is caught and printed.
\* Either way the file is as it was.
save_to_file(tasks, file, disk) ==
    CASE disk = "mkdir fails" -> [file |-> file, exc |-> "OSError"]
      [] disk = "open fails" -> [file |-> file, exc |-> "none"]
      [] OTHER -> [file |-> SaveToFile(tasks), exc |-> "none"]

\* self._tasks[task.task_id] = task; self._save_to_file()
StoreOn(self, task, disk) ==
    LET tasks == DictSet(self.tasks, task)
        saved == save_to_file(tasks, self.file, disk)
    IN  Outcome(Repository(tasks, saved.file), saved.exc)

\* JsonTaskRepository.add on such a disk
add_on(self, task, disk) ==
    IF Contains(self.tasks, task.task_id)
    THEN Outcome(self, "ValueError")
    ELSE StoreOn(self, task, disk)

\* JsonTaskRepository.update on such a disk
update_on(self, task, disk) ==
    IF ~Contains(self.tasks, task.task_id)
    THEN Outcome(self, "KeyError")
    ELSE StoreOn(self, task, disk)

\* JsonTaskRepository.delete_by_id on such a disk
delete_by_id_on(self, task_id, disk) ==
    IF Contains(self.tasks, task_id)
    THEN LET tasks == DictDel(self.tasks, task_id)
             saved == save_to_file(tasks, self.file, disk)
         IN  Outcome(Repository(tasks, saved.file), saved.exc)
    ELSE Outcome(self, "none")

\* datetime parsed from its ISO string.
FromIsoFormat(str) == str[2]

\* Task(**data) raises for a status that is no TaskStatus value and for a
\* priority outside 1..10.
Validates(data) ==
    /\ data.status \in TaskStatus
    /\ data.priority \in 1..10

\* Task(**data) that takes the default status for every task.
TaskOfDefaults(data) ==
    [task_id |-> data.task_id, status |-> "NEW", priority |-> data.priority,
     created_at |-> FromIsoFormat(data.created_at), agent_id |-> data.agent_id,
     correlation_ids |-> data.correlation_ids, blocked_by |-> data.blocked_by]

\* Task(**data) for data that validates.
TaskOf(data) ==
    [task_id |-> data.task_id, status |-> data.status, priority |-> data.priority,
     created_at |-> FromIsoFormat(data.created_at), agent_id |-> data.agent_id,
     correlation_ids |-> data.correlation_ids, blocked_by |-> data.blocked_by]

\* The loop of _load_from_files over raw_data.items(): a record that does
\* not validate is printed and skipped.
RECURSIVE LoadItems(_, _)
LoadItems(raw_data, tasks) ==
    IF raw_data = <<>>
    THEN tasks
    ELSE LoadItems(Tail(raw_data),
                   IF Validates(Head(raw_data))
                   THEN DictSet(tasks, TaskOf(Head(raw_data)))
                   ELSE tasks)

\* _load_from_files: {} when the file does not exist.
load_from_files(file) ==
    IF ~file.exists THEN <<>> ELSE LoadItems(file.data, <<>>)

\* JsonTaskRepository(file_path): the cache is what the file holds.
Open(file) == Repository(load_from_files(file), file)

\* JsonTaskRepository.get_pending_count
get_pending_count(self) ==
    Cardinality({i \in DOMAIN self.tasks : self.tasks[i].status = "PENDING"})

----------------------------------------------------------------------------
(* JsonTaskRepository.query *)

\* Python's None where a filter value is expected.
NoFilter == "None"

\* exclusive_start_key: None, or the dict {'last_id': id}.
NoKey == [given |-> FALSE, last_id |-> 0]
LastId(id) == [given |-> TRUE, last_id |-> id]

\* query's default limit.
DefaultLimit == 10

\* The keyword arguments of query other than exclusive_start_key.
QueryArgs(fs, fa, fc, field, asc, lim) ==
    [filter_status |-> fs, filter_agent_id |-> fa, filter_correlation_id |-> fc,
     sort_field |-> field, sort_ascending |-> asc, limit |-> lim]

\* query(limit=lim): every other argument at its default.
DefaultArgs(lim) == QueryArgs(NoFilter, NoFilter, NoFilter, "created_at", TRUE, lim)

\* if filter_status: an enum member is true, None is not.
TruthyStatus(fs) == fs # NoFilter

\* if filter_agent_id: a non-empty string is true; None and "" are not.
TruthyStr(x) == x # NoFilter /\ x # ""

StatusIs(fs, t) == t.status = fs
AgentIs(fa, t) == t.agent_id = fa
CorrelatedWith(fc, t) == fc \in t.correlation_ids

\* The filtering of query: results = list(self._tasks.values()), then one
\* list comprehension for each filter that is true.
Filtered(tasks, a) ==
    LET r1 == IF TruthyStatus(a.filter_status)
              THEN SelectSeq(tasks, LAMBDA t : StatusIs(a.filter_status, t))
              ELSE tasks
        r2 == IF TruthyStr(a.filter_agent_id)
              THEN SelectSeq(r1, LAMBDA t : AgentIs(a.filter_agent_id, t))
              ELSE r1
    IN  IF TruthyStr(a.filter_correlation_id)
        THEN SelectSeq(r2, LAMBDA t : CorrelatedWith(a.filter_correlation_id, t))
        ELSE r2

\* The sort fields the callers name that a Task has; getattr of any other
\* name callers pass raises AttributeError.
HasAttr(field) == field \in {"created_at", "priority"}

\* getattr(t, field)
GetAttr(t, field) == IF field = "priority" THEN t.priority ELSE t.created_at

\* list.sort(key=..., reverse=...) puts t before u for their keys alone.
KeyBefore(t, u, field, reverse) ==
    IF reverse
    THEN GetAttr(t, field) > GetAttr(u, field)
    ELSE GetAttr(t, field) < GetAttr(u, field)

\* The place of l[i] after the sort: list.sort is stable, also with
\* reverse=True, so elements with equal keys keep their order.
PlaceAfterSort(l, i, field, reverse) ==
    1 + Cardinality({j \in DOMAIN l :
            \/ KeyBefore(l[j], l[i], field, reverse)
            \/ (~KeyBefore(l[i], l[j], field, reverse) /\ j < i)})

\* l.sort(key=lambda t: getattr(t, field), reverse=reverse)
ListSort(l, field, reverse) ==
    [p \in DOMAIN l |->
        l[CHOOSE i \in DOMAIN l : PlaceAfterSort(l, i, field, reverse) = p]]

\* The sorting of query: by sort_field, and by created_at when the Task has
\* no such attribute (except AttributeError).
SortedFiltered(tasks, a) ==
    LET results == Filtered(tasks, a)
    IN  IF HasAttr(a.sort_field)
        THEN ListSort(results, a.sort_field, ~a.sort_ascending)
        ELSE ListSort(results, "created_at", ~a.sort_ascending)

\* start_index without the + 1.
StartIndexInclusive(results, key) ==
    IF key.given /\ \E i \in DOMAIN results : results[i].task_id = key.last_id
    THEN (CHOOSE i \in DOMAIN results :
            /\ results[i].task_id = key.last_id
            /\ \A j \in 1..(i - 1) : results[j].task_id # key.last_id) - 1
    ELSE 0

\* start_index: one past the first task whose id is the cursor's, 0 when
\* there is no cursor or no such task (except StopIteration).
StartIndex(results, key) ==
    IF key.given /\ \E i \in DOMAIN results : results[i].task_id = key.last_id
    THEN CHOOSE i \in DOMAIN results :
            /\ results[i].task_id = key.last_id
            /\ \A j \in 1..(i - 1) : results[j].task_id # key.last_id
    ELSE 0

\* l[start:end] for 0 <= start <= end.
Slice(l, start, end) ==
    SubSeq(l, start + 1, IF end < Len(l) THEN end ELSE Len(l))

\* What query returns or raises.
QueryResult(page, next_key, e) == [page |-> page, next_key |-> next_key, exc |-> e]

\* JsonTaskRepository.query.  page[-1] of an empty page raises IndexError.
query(self, a, exclusive_start_key) ==
    LET results == SortedFiltered(self.tasks, a)
        start_index == StartIndex(results, exclusive_start_key)
        end_index == start_index + a.limit
        page == Slice(results, start_index, end_index)
    IN  IF end_index < Len(results)
        THEN IF page = <<>>
             THEN QueryResult(<<>>, NoKey, "IndexError")
             ELSE QueryResult(page, LastId(page[Len(page)].task_id), "none")
        ELSE QueryResult(page, NoKey, "none")

----------------------------------------------------------------------------
(* TaskDataService *)

\* A TaskDataService object: its two repositories.
Service(act, arc) == [_active_repo |-> act, _archive_repo |-> arc]

\* finished_statuses with CANCELLED forgotten.
finished_statuses_short == {"COMPLETED", "FAILED"}

\* update_task's local sets.
finished_statuses == {"COMPLETED", "FAILED", "CANCELLED"}
active_statuses == {"NEW", "PENDING", "RUNNING"}

\* if task: a Task object is true, None is not.
Truthy(task) == task # None

\* add_task without the status check.
add_task_unchecked(self, task) ==
    LET a == add(self._active_repo, task)
    IN  Outcome(Service(a.self, self._archive_repo), a.exc)

\* TaskDataService.add_task
add_task(self, task) ==
    IF task.status # "NEW"
    THEN Outcome(self, "ValueError")
    ELSE LET a == add(self._active_repo, task)
         IN  Outcome(Service(a.self, self._archive_repo), a.exc)

\* get_task_by_id that looks in the archive first.
get_task_by_id_archive_first(self, task_id) ==
    LET task == get_by_id(self._archive_repo, task_id)
    IN  IF Truthy(task) THEN task ELSE get_by_id(self._active_repo, task_id)

\* TaskDataService.get_task_by_id
get_task_by_id(self, task_id) ==
    LET task == get_by_id(self._active_repo, task_id)
    IN  IF Truthy(task) THEN task ELSE get_by_id(self._archive_repo, task_id)

\* try: repo.update(task) / except KeyError: repo.add(task)
Upsert(repository, task) ==
    LET u == update(repository, task)
    IN  IF u.exc = "KeyError" THEN add(u.self, task) ELSE u

\* The delete from the source repository left out.
DeleteSkipped(repository, task_id) == Outcome(repository, "none")

\* try: repo.delete_by_id(task_id) / except KeyError: pass
DeleteIgnoringKeyError(repository, task_id) ==
    LET d == delete_by_id(repository, task_id)
    IN  IF d.exc = "KeyError" THEN Outcome(d.self, "none") ELSE d

\* TaskDataService.update_task
update_task(self, updated_task) ==
    LET new_status == updated_task.status
    IN  IF new_status \in finished_statuses
        THEN LET w == Upsert(self._archive_repo, updated_task)
                 d == DeleteIgnoringKeyError(self._active_repo, updated_task.task_id)
             IN  IF w.exc # "none"
                 THEN Outcome(Service(self._active_repo, w.self), w.exc)
                 ELSE Outcome(Service(d.self, w.self), d.exc)
        ELSE IF new_status \in active_statuses
        THEN LET w == Upsert(self._active_repo, updated_task)
                 d == DeleteIgnoringKeyError(self._archive_repo, updated_task.task_id)
             IN  IF w.exc # "none"
                 THEN Outcome(Service(w.self, self._archive_repo), w.exc)
                 ELSE Outcome(Service(w.self, d.self), d.exc)
        ELSE LET a == update(self._active_repo, updated_task)
                 r == update(self._archive_repo, updated_task)
             IN  IF a.exc # "KeyError"
                 THEN Outcome(Service(a.self, self._archive_repo), a.exc)
                 ELSE Outcome(Service(a.self, r.self), r.exc)

\* The second write of update_task: the best-effort delete from the
\* repository the status does not belong to.
delete_from_source(self, updated_task) ==
    IF updated_task.status \in finished_statuses
    THEN LET d == DeleteIgnoringKeyError(self._active_repo, updated_task.task_id)
         IN  Outcome(Service(d.self, self._archive_repo), d.exc)
    ELSE LET d == DeleteIgnoringKeyError(self._archive_repo, updated_task.task_id)
         IN  Outcome(Service(self._active_repo, d.self), d.exc)

\* The delete is made where the upsert belongs.
delete_first(self, updated_task) == delete_from_source(self, updated_task)

\* The first write of update_task: the upsert into the repository the
\* status belongs to.
upsert_into_destination(self, updated_task) ==
    IF updated_task.status \in finished_statuses
    THEN LET w == Upsert(self._archive_repo, updated_task)
         IN  Outcome(Service(self._active_repo, w.self), w.exc)
    ELSE LET w == Upsert(self._active_repo, updated_task)
         IN  Outcome(Service(w.self, self._archive_repo), w.exc)

\* The archive is asked for a whole page.
whole_limit(limit, results) == limit

\* remaining_limit = limit - len(results)
remaining_limit(limit, results) == limit - Len(results)

\* The repository is not asked.
NotAsked == QueryResult(<<>>, NoKey, "none")

\* The active repository is asked only when no cursor is given and the
\* filter is None or an active status; exclusive_start_key is not passed on.
ActivePart(self, a, exclusive_start_key) ==
    IF /\ ~exclusive_start_key.given
       /\ (a.filter_status = NoFilter \/ a.filter_status \in active_statuses)
    THEN query(self._active_repo, a, NoKey)
    ELSE NotAsked

\* The archive is asked only when the page is not full and the filter is
\* None or a finished status, for what the page still lacks.
ArchivePart(self, a, exclusive_start_key, results) ==
    IF /\ Len(results) < a.limit
       /\ (a.filter_status = NoFilter \/ a.filter_status \in finished_statuses)
    THEN query(self._archive_repo,
               [a EXCEPT !.limit = remaining_limit(a.limit, results)],
               exclusive_start_key)
    ELSE NotAsked

\* The cursor of the active repository is handed out when the archive gave
\* none.
FederatedActiveCursor(act, arc) ==
    IF act.exc # "none" THEN QueryResult(<<>>, NoKey, act.exc)
    ELSE IF arc.exc # "none" THEN QueryResult(<<>>, NoKey, arc.exc)
    ELSE QueryResult(act.page \o arc.page,
                     IF arc.next_key.given THEN arc.next_key ELSE act.next_key,
                     "none")

\* results.extend(active_results); results.extend(archive_results); the
\* next_key of the active repository is dropped and the archive's is
\* returned.  An exception of either query leaves the call.
Federated(act, arc) ==
    IF act.exc # "none" THEN QueryResult(<<>>, NoKey, act.exc)
    ELSE IF arc.exc # "none" THEN QueryResult(<<>>, NoKey, arc.exc)
    ELSE QueryResult(act.page \o arc.page, arc.next_key, "none")

\* TaskDataService.query_all_tasks(filter_status, limit, **kwargs), where a
\* holds filter_status, limit and the keyword arguments passed on to query.
query_all_tasks(self, a, exclusive_start_key) ==
    LET act == ActivePart(self, a, exclusive_start_key)
    IN  Federated(act, ArchivePart(self, a, exclusive_start_key, act.page))

----------------------------------------------------------------------------
(* SimpleSchedulingStrategy *)

\* Only the dependencies in one of the non-terminal statuses block.
blocking_statuses_non_terminal == {"PENDING", "RUNNING", "NEW"}

\* blocking_statuses
blocking_statuses == {"FAILED", "PENDING", "RUNNING", "NEW"}

\* A dependency that is not stored blocks too.
IsBlockingOrMissing(self, blocking_task_id) ==
    LET blocking_task == get_task_by_id(self, blocking_task_id)
    IN  IF blocking_task = None
        THEN TRUE
        ELSE blocking_task.status \in blocking_statuses

\* One turn of the loop over task.blocked_by: a dependency the data service
\* does not find is skipped; one it finds blocks when its status is one of
\* blocking_statuses.
IsBlocking(self, blocking_task_id) ==
    LET blocking_task == get_task_by_id(self, blocking_task_id)
    IN  IF blocking_task = None
        THEN FALSE
        ELSE blocking_task.status \in blocking_statuses

\* is_task_blocked_by_dependency at the end of the loop: the loop breaks at
\* the first blocking dependency.
is_task_blocked_by_dependency(self, task) ==
    \E blocking_task_id \in task.blocked_by : IsBlocking(self, blocking_task_id)

\* unblocked_tasks: the candidates that are not blocked, in their order.
unblocked_tasks(self, pending_tasks) ==
    SelectSeq(pending_tasks, LAMBDA task : ~is_task_blocked_by_dependency(self, task))

\* The older task first, whatever the priorities.
CreatedAtBefore(t, u) == t.created_at < u.created_at

\* key=lambda task: (task.priority, task.created_at): the tuple of t is less
\* than the tuple of u.
SortKeyBefore(t, u) ==
    \/ t.priority < u.priority
    \/ (t.priority = u.priority /\ t.created_at < u.created_at)

\* The place of l[i] in sorted(l): sorted is stable.
PlaceInSorted(l, i) ==
    1 + Cardinality({j \in DOMAIN l :
            \/ SortKeyBefore(l[j], l[i])
            \/ (~SortKeyBefore(l[i], l[j]) /\ j < i)})

\* sorted(unblocked_tasks, key=...)
sorted_tasks(l) ==
    [p \in DOMAIN l |-> l[CHOOSE i \in DOMAIN l : PlaceInSorted(l, i) = p]]

\* The number of tasks a selection holds at most.
SelectionCap == 10

\* The whole sorted list.
Uncapped(l) == l

\* tasks_to_run = sorted_tasks[:10]
tasks_to_run(l) == Slice(l, 0, SelectionCap)

\* Nothing is admitted when no RAM is available.
select_tasks_within_ram(self, pending_tasks, available_ram_mb, available_cpu_cores) ==
    LET unblocked == unblocked_tasks(self, pending_tasks)
    IN  IF unblocked = <<>> \/ available_ram_mb = 0
        THEN <<>>
        ELSE tasks_to_run(sorted_tasks(unblocked))

\* SimpleSchedulingStrategy.select_tasks; self is the strategy's
\* _data_service.  The resource arguments are not read.
select_tasks(self, pending_tasks, available_ram_mb, available_cpu_cores) ==
    LET unblocked == unblocked_tasks(self, pending_tasks)
    IN  IF unblocked = <<>>
        THEN <<>>
        ELSE tasks_to_run(sorted_tasks(unblocked))

----------------------------------------------------------------------------
(* SimpleScheduler *)

\* A SimpleScheduler object: the data service it shares with its strategy,
\* and its cache.
Scheduler(data_service, cache) ==
    [_data_service |-> data_service, _next_tasks_to_run |-> cache]

\* The collaborator calls of a get_next_task call: the numbers of calls of the
\* monitor, of query_active_tasks, of select_tasks and of update_task, and
\* whether the monitor raised.
Calls(mon, qry, sel, upd, failed) ==
    [monitor |-> mon, query |-> qry, select |-> sel, update |-> upd,
     monitor_failed |-> failed]

\* What the monitor does in one get_next_task call: raises = 0 when both of
\* its calls return (res is what they return), 1 when
\* get_available_ram_mb raises, 2 when get_available_cpu_cores raises.
Monitor(raises, res) == [raises |-> raises, res |-> res]

\* How a get_next_task call ends: the scheduler afterwards, the task
\* returned (None for absent), the exception that left the call, the calls
\* it made, and what it passed to and got from the strategy.
Ended(self, task, e, c, pending_tasks, res, selected_tasks) ==
    [self |-> self, ret |-> task, exc |-> e, calls |-> c,
     candidates |-> pending_tasks, available |-> res, selected |-> selected_tasks]

\* limit=100 of the two queries of a refill.
RefillLimit == 100

\* TaskDataService.query_active_tasks without a filter.
query_active_tasks_unfiltered(self, filter_status, limit) ==
    query(self._active_repo, DefaultArgs(limit), NoKey)

\* TaskDataService.query_active_tasks(filter_status=..., limit=...)
query_active_tasks(self, filter_status, limit) ==
    query(self._active_repo,
          QueryArgs(filter_status, NoFilter, NoFilter, "created_at", TRUE, limit),
          NoKey)

\* The copy left as it was.
NotMarked(task) == task

\* task.model_copy(update={"status": TaskStatus.RUNNING})
MarkedRunning(task) == [task EXCEPT !.status = "RUNNING"]

\* for task in selected_tasks: update_task(the copy marked RUNNING).  n is
\* the number of update_task calls; an exception ends the loop.  AfterMark
\* goes on after the update_task call that ended as o.
RECURSIVE MarkAll(_, _, _), AfterMark(_, _, _)
MarkAll(data_service, selected_tasks, n) ==
    IF selected_tasks = <<>>
    THEN [self |-> data_service, exc |-> "none", n |-> n]
    ELSE AfterMark(update_task(data_service, MarkedRunning(Head(selected_tasks))),
                   Tail(selected_tasks), n + 1)

AfterMark(o, selected_tasks, n) ==
    IF o.exc # "none"
    THEN [self |-> o.self, exc |-> o.exc, n |-> n]
    ELSE MarkAll(o.self, selected_tasks, n)

\* The last task of the cache is taken.
PopLast(self, c, pending_tasks, res, selected_tasks) ==
    Ended(Scheduler(self._data_service,
                    SubSeq(self._next_tasks_to_run, 1, Len(self._next_tasks_to_run) - 1)),
          self._next_tasks_to_run[Len(self._next_tasks_to_run)],
          "none", c, pending_tasks, res, selected_tasks)

\* return self._next_tasks_to_run.pop(0)
PopHead(self, c, pending_tasks, res, selected_tasks) ==
    Ended(Scheduler(self._data_service, Tail(self._next_tasks_to_run)),
          Head(self._next_tasks_to_run), "none", c, pending_tasks, res, selected_tasks)

\* The first candidate is handed out although it was not selected.
FirstCandidate(self, c, pending_tasks, res) ==
    IF pending_tasks = <<>>
    THEN Ended(self, None, "none", c, pending_tasks, res, <<>>)
    ELSE Ended(self, Head(pending_tasks), "none", c, pending_tasks, res, <<>>)

\* return None: no available tasks to run.
NothingToRun(self, c, pending_tasks, res) ==
    Ended(self, None, "none", c, pending_tasks, res, <<>>)

\* self._next_tasks_to_run.extend(selected_tasks) and the return, after the
\* marking loop ended as m; an exception of update_task leaves the call.
Dispatch(self, res, tasks_available_to_schedule, selected_tasks, m) ==
    IF m.exc # "none"
    THEN Ended(Scheduler(m.self, self._next_tasks_to_run), None, m.exc,
               Calls(2, 2, 1, m.n, FALSE),
               tasks_available_to_schedule, res, selected_tasks)
    ELSE PopHead(Scheduler(m.self, self._next_tasks_to_run \o selected_tasks),
                 Calls(2, 2, 1, m.n, FALSE),
                 tasks_available_to_schedule, res, selected_tasks)

\* if selected_tasks: mark, extend and return the head; else return None.
WhenSelected(self, res, tasks_available_to_schedule, selected_tasks) ==
    IF selected_tasks # <<>>
    THEN Dispatch(self, res, tasks_available_to_schedule, selected_tasks,
                  MarkAll(self._data_service, selected_tasks, 0))
    ELSE NothingToRun(self, Calls(2, 2, 1, 0, FALSE),
                      tasks_available_to_schedule, res)

\* selected_tasks = self._strategy.select_tasks(...)
Select(self, res, tasks_available_to_schedule) ==
    WhenSelected(self, res, tasks_available_to_schedule,
              select_tasks(self._data_service, tasks_available_to_schedule,
                           res[1], res[2]))

\* The refill of get_next_task after the monitor returned res:
\* tasks_available_to_schedule = new_tasks + pending_tasks.
Refill(self, res) ==
    Select(self, res,
           query_active_tasks(self._data_service, "NEW", RefillLimit).page
               \o query_active_tasks(self._data_service, "PENDING", RefillLimit).page)

\* The head of the cache is returned and stays in the cache.
PeekHead(self) ==
    Ended(self, Head(self._next_tasks_to_run), "none",
          Calls(0, 0, 0, 0, FALSE), <<>>, <<0, 0>>, <<>>)

\* if self._next_tasks_to_run: return self._next_tasks_to_run.pop(0)
HotPath(self) == PopHead(self, Calls(0, 0, 0, 0, FALSE), <<>>, <<0, 0>>, <<>>)

\* SimpleScheduler.get_next_task.  An exception of the monitor leaves the
\* call: nothing catches it.
get_next_task(self, monitor) ==
    IF self._next_tasks_to_run # <<>>
    THEN HotPath(self)
    ELSE IF monitor.raises # 0
    THEN Ended(self, None, "MonitorError", Calls(monitor.raises, 0, 0, 0, TRUE),
               <<>>, <<0, 0>>, <<>>)
    ELSE Refill(self, monitor.res)

----------------------------------------------------------------------------
(* The state machine *)

\* The service object in the current state.
Svc == Service(Repository(active, activeFile), Repository(archive, archiveFile))

\* The stand-alone repository object in the current state.
Rep == Repository(repo, repoFile)

\* The stores that hold task_id now.
StoredIn(task_id) ==
    {n \in {"active"} : Contains(active, task_id)}
        \cup {n \in {"archive"} : Contains(archive, task_id)}
        \cup {n \in {"repo"} : Contains(repo, task_id)}

\* No call has been made.
NoCall ==
    /\ lastOp = "init" /\ lastArg = None /\ lastIn = {}
    /\ exc = "none" /\ ret = None

\* No query has been made.
NoQuery ==
    /\ qArgs = DefaultArgs(DefaultLimit) /\ qKey = NoKey
    /\ qPage = <<>> /\ qNext = NoKey /\ qAcc = <<>>

\* No get_next_task call has been made.
NoCalls == Calls(0, 0, 0, 0, FALSE)

\* A second scheduler with an empty cache; nothing selected, returned or
\* written yet; no update_task call under way.
NoHistory ==
    /\ peer_tasks_to_run = <<>>
    /\ batch = <<>> /\ served = <<>> /\ dispatched = {}
    /\ quiet = FALSE /\ pc = "idle"
    /\ written = [id \in TaskIds |-> None]

\* No selection has been made.
NoSelection ==
    /\ candidates = <<>> /\ available = <<0, 0>> /\ selected = <<>>

\* Both repositories of a new service and a new stand-alone repository: no
\* backing file yet, so _load_from_files returns {}.
Init ==
    /\ active = <<>> /\ activeFile = NoFile
    /\ archive = <<>> /\ archiveFile = NoFile
    /\ repo = <<>> /\ repoFile = NoFile
    /\ NoCall /\ NoQuery /\ NoSelection
    /\ next_tasks_to_run = <<>> /\ calls = NoCalls /\ NoHistory

\* The service object o.self becomes the state.
SvcBecomes(s) ==
    /\ active' = s._active_repo.tasks
    /\ activeFile' = s._active_repo.file
    /\ archive' = s._archive_repo.tasks
    /\ archiveFile' = s._archive_repo.file

\* The record of a call.
Called(op, arg, e, r) ==
    /\ lastOp' = op /\ lastArg' = arg /\ lastIn' = StoredIn(arg.task_id)
    /\ exc' = e /\ ret' = r

\* A caller calls TaskDataService.add_task(task).
AddTask(task) ==
    LET o == add_task(Svc, task)
    IN  /\ SvcBecomes(o.self)
        /\ Called("add_task", task, o.exc, None)
        /\ UNCHANGED <<repoVars, queryVars, stratVars, schedVars>>

\* A caller calls TaskDataService.update_task(task).
UpdateTask(task) ==
    LET o == update_task(Svc, task)
    IN  /\ SvcBecomes(o.self)
        /\ Called("update_task", task, o.exc, None)
        /\ UNCHANGED <<repoVars, queryVars, stratVars, schedVars>>

\* A caller calls TaskDataService.get_task_by_id(task_id).
GetTaskById(task_id) ==
    /\ Called("get_task_by_id", IdArg(task_id), "none", get_task_by_id(Svc, task_id))
    /\ UNCHANGED svcVars
    /\ UNCHANGED <<repoVars, queryVars, stratVars, schedVars>>

Next ==
    \/ \E task \in Tasks : AddTask(task)
    \/ \E task \in Tasks : UpdateTask(task)
    \/ \E task_id \in TaskIds : GetTaskById(task_id)

\* The data service under any sequence of calls.
Spec == Init /\ [][Next]_vars

\* A call that passed a task to the data service ended as o: a call that
\* raised nothing is the latest write of the task's id.
Wrote(op, task, o) ==
    /\ SvcBecomes(o.self)
    /\ Called(op, task, o.exc, None)
    /\ written' = IF o.exc = "none"
                  THEN [written EXCEPT ![task.task_id] = task]
                  ELSE written
    /\ UNCHANGED <<repoVars, queryVars, stratVars, next_tasks_to_run, calls>>
    /\ UNCHANGED <<peer_tasks_to_run, batch, served, dispatched, quiet, pc>>

\* A caller calls TaskDataService.add_task(task).
AddTaskWritten(task) == Wrote("add_task", task, add_task(Svc, task))

\* A caller calls TaskDataService.update_task(task).
UpdateTaskWritten(task) == Wrote("update_task", task, update_task(Svc, task))

NextWrites ==
    \/ \E task \in Tasks : AddTaskWritten(task)
    \/ \E task \in Tasks : UpdateTaskWritten(task)
    \/ \E task_id \in TaskIds : GetTaskById(task_id)

\* The data service under any sequence of calls, with the latest write of
\* every id.
SpecWrites == Init /\ [][NextWrites]_vars

\* TaskDataService.update_task(task) makes its first write.
BeginUpdateTask(task) ==
    LET o == upsert_into_destination(Svc, task)
    IN  /\ pc = "idle"
        /\ SvcBecomes(o.self)
        /\ Called("update_task", task, o.exc, None)
        /\ pc' = IF o.exc = "none" THEN "delete" ELSE "idle"
        /\ UNCHANGED <<repoVars, queryVars, stratVars, next_tasks_to_run, calls>>
        /\ UNCHANGED <<peer_tasks_to_run, batch, served, dispatched, quiet, written>>

\* The update_task call under way makes its second write and returns.
EndUpdateTask ==
    LET o == delete_from_source(Svc, lastArg)
    IN  /\ pc = "delete"
        /\ SvcBecomes(o.self)
        /\ exc' = o.exc
        /\ pc' = "idle"
        /\ UNCHANGED <<lastOp, lastArg, lastIn, ret>>
        /\ UNCHANGED <<repoVars, queryVars, stratVars, next_tasks_to_run, calls>>
        /\ UNCHANGED <<peer_tasks_to_run, batch, served, dispatched, quiet, written>>

\* The other calls are made when no update_task call is under way.
NextMigration ==
    \/ \E task \in Tasks : pc = "idle" /\ AddTask(task)
    \/ \E task \in Tasks : BeginUpdateTask(task)
    \/ EndUpdateTask
    \/ \E task_id \in TaskIds : pc = "idle" /\ GetTaskById(task_id)

\* The data service with each repository write of update_task as a step.
SpecMigration == Init /\ [][NextMigration]_vars

\* The repository object o.self becomes the state.
RepoBecomes(r) == repo' = r.tasks /\ repoFile' = r.file

\* A caller calls JsonTaskRepository.add(task).
Add(task) ==
    LET o == add(Rep, task)
    IN  /\ RepoBecomes(o.self)
        /\ Called("add", task, o.exc, None)
        /\ UNCHANGED <<svcVars, queryVars, stratVars, schedVars>>

\* A caller calls JsonTaskRepository.update(task).
Update(task) ==
    LET o == update(Rep, task)
    IN  /\ RepoBecomes(o.self)
        /\ Called("update", task, o.exc, None)
        /\ UNCHANGED <<svcVars, queryVars, stratVars, schedVars>>

\* A caller calls JsonTaskRepository.delete_by_id(task_id).
DeleteById(task_id) ==
    LET o == delete_by_id(Rep, task_id)
    IN  /\ RepoBecomes(o.self)
        /\ Called("delete_by_id", IdArg(task_id), o.exc, None)
        /\ UNCHANGED <<svcVars, queryVars, stratVars, schedVars>>

\* A caller calls JsonTaskRepository.get_by_id(task_id).
GetById(task_id) ==
    /\ Called("get_by_id", IdArg(task_id), "none", get_by_id(Rep, task_id))
    /\ UNCHANGED repoVars
    /\ UNCHANGED <<svcVars, queryVars, stratVars, schedVars>>

NextRepo ==
    \/ \E task \in Tasks : Add(task)
    \/ \E task \in Tasks : Update(task)
    \/ \E task_id \in TaskIds : DeleteById(task_id)
    \/ \E task_id \in TaskIds : GetById(task_id)

\* One repository under any sequence of calls.
SpecRepo == Init /\ [][NextRepo]_vars

\* A new JsonTaskRepository is constructed on the file of the repository
\* and takes its place.
Reopen ==
    /\ RepoBecomes(Open(repoFile))
    /\ lastOp' = "reopen" /\ lastArg' = None /\ lastIn' = {}
    /\ exc' = "none" /\ ret' = None
    /\ UNCHANGED <<svcVars, queryVars, stratVars, schedVars>>

NextReopen ==
    \/ \E task \in Tasks : Add(task)
    \/ \E task \in Tasks : Update(task)
    \/ \E task_id \in TaskIds : DeleteById(task_id)
    \/ \E task_id \in TaskIds : GetById(task_id)
    \/ Reopen

\* One repository on a sound disk, reconstructed from its file at any time.
SpecReopen == Init /\ [][NextReopen]_vars

\* A caller calls JsonTaskRepository.add(task) while the disk is as given.
AddOn(task, disk) ==
    LET o == add_on(Rep, task, disk)
    IN  /\ RepoBecomes(o.self)
        /\ Called("add", task, o.exc, None)
        /\ UNCHANGED <<svcVars, queryVars, stratVars, schedVars>>

\* A caller calls JsonTaskRepository.update(task) while the disk is as given.
UpdateOn(task, disk) ==
    LET o == update_on(Rep, task, disk)
    IN  /\ RepoBecomes(o.self)
        /\ Called("update", task, o.exc, None)
        /\ UNCHANGED <<svcVars, queryVars, stratVars, schedVars>>

\* A caller calls JsonTaskRepository.delete_by_id(task_id) while the disk is
\* as given.
DeleteByIdOn(task_id, disk) ==
    LET o == delete_by_id_on(Rep, task_id, disk)
    IN  /\ RepoBecomes(o.self)
        /\ Called("delete_by_id", IdArg(task_id), o.exc, None)
        /\ UNCHANGED <<svcVars, queryVars, stratVars, schedVars>>

\* The tasks written to the failing disk.
WrittenTasks == {t \in Tasks : t.status \in {"NEW", "COMPLETED"}}

NextFault ==
    \/ \E task \in WrittenTasks, disk \in Disks : AddOn(task, disk)
    \/ \E task \in WrittenTasks, disk \in Disks : UpdateOn(task, disk)
    \/ \E task_id \in TaskIds, disk \in Disks : DeleteByIdOn(task_id, disk)
    \/ Reopen

\* One repository on a disk whose writes may fail, reconstructed from its
\* file at any time.
SpecFault == Init /\ [][NextFault]_vars

----------------------------------------------------------------------------
(* Paged queries of a repository loaded from its file *)

\* The most tasks a queried repository holds, and their ids.
NumRows == 3
RowIds == 1..NumRows

\* The largest limit a caller passes.
MaxLimit == 2

\* The creation times of the queried tasks: the fixtures' and a later one.
CreatedAts == {FixtureCreatedAt, FixtureCreatedAt + 10}

\* The tasks of the repositories whose pages are read: they differ in id,
\* status and created_at; all have the fixtures' priority, so they tie when
\* sorted by priority.
QueryTasks ==
    {TaskWith(id, st, FixturePriority, ca, FixtureAgent, {}, {}) :
        id \in RowIds, st \in {"PENDING", "COMPLETED"}, ca \in CreatedAts}

\* Every dict of at most NumRows of the tasks T, in every insertion order.
Dicts(T) ==
    {d \in UNION {[1..n -> T] : n \in 0..NumRows} :
        \A i, j \in DOMAIN d : i # j => d[i].task_id # d[j].task_id}

\* The file a repository with these tasks was loaded from.
FileOf(tasks) == IF tasks = <<>> THEN NoFile ELSE SaveToFile(tasks)

\* A stand-alone repository constructed over a file that holds one of the
\* dicts D (_load_from_files fills _tasks in the file's order), and a caller
\* that reads it with arguments of A, the same in every call.
LoadedFrom(D, A) ==
    /\ active = <<>> /\ activeFile = NoFile
    /\ archive = <<>> /\ archiveFile = NoFile
    /\ repo \in D /\ repoFile = FileOf(repo)
    /\ NoCall /\ NoSelection
    /\ qArgs \in A /\ qKey = NoKey
    /\ qPage = <<>> /\ qNext = NoKey /\ qAcc = <<>>
    /\ next_tasks_to_run = <<>> /\ calls = NoCalls /\ NoHistory

\* The sort fields the callers name: two attributes of Task and a name that
\* is no attribute.
SortFields == {"created_at", "priority", "no_such_field"}

\* The arguments of the paged queries: filtered by status or not, sorted by
\* each field in each direction, with each limit from 0.
PagedArgs ==
    {QueryArgs(fs, NoFilter, NoFilter, field, asc, lim) :
        fs \in {NoFilter, "PENDING"}, field \in SortFields,
        asc \in BOOLEAN, lim \in 0..MaxLimit}

InitQuery == LoadedFrom(Dicts(QueryTasks), PagedArgs)

\* The call repo.query(**qArgs, exclusive_start_key=key) was made; thread
\* tells whether its page continues the pages read so far.
Queried(op, key, thread) ==
    LET r == query(Rep, qArgs, key)
    IN  /\ lastOp' = op
        /\ qKey' = key
        /\ qPage' = r.page /\ qNext' = r.next_key /\ exc' = r.exc
        /\ qAcc' = IF r.exc # "none" THEN <<>>
                   ELSE IF thread THEN Append(qAcc, r.page) ELSE <<r.page>>
        /\ UNCHANGED <<qArgs, lastArg, lastIn, ret>>
        /\ UNCHANGED <<svcVars, repoVars, stratVars, schedVars>>

\* The first page: query without a cursor.
Query == Queried("query", NoKey, FALSE)

\* The next page: the same arguments, with the next_key just returned.
QueryNextPage ==
    /\ lastOp \in {"query", "query_next"}
    /\ exc = "none"
    /\ qNext.given
    /\ Queried("query_next", qNext, TRUE)

\* A page after a cursor the caller kept from earlier: the id of a task that
\* may no longer match, or may no longer be stored.
QueryFrom(last_id) == Queried("query_from", LastId(last_id), FALSE)

NextQuery ==
    \/ Query
    \/ QueryNextPage
    \/ \E last_id \in 1..(NumRows + 1) : QueryFrom(last_id)

SpecQuery == InitQuery /\ [][NextQuery]_vars

----------------------------------------------------------------------------
(* Filtered queries *)

\* The agents and the correlation lists of the filtered tasks.
Agents == {FixtureAgent, "A-002"}
CorrelationLists == {{"proj-A"}, {"proj-A", "user-X"}}

\* The tasks of the repositories that are filtered: they differ in id,
\* status, agent and correlation ids.
FilterTasks ==
    {TaskWith(id, st, FixturePriority, FixtureCreatedAt, ag, co, {}) :
        id \in RowIds, st \in {"PENDING", "COMPLETED"},
        ag \in Agents, co \in CorrelationLists}

\* The dicts of these tasks added in the order of their ids.
FilterDicts ==
    {d \in Dicts(FilterTasks) :
        \A i, j \in DOMAIN d : i < j => d[i].task_id < d[j].task_id}

\* The arguments of the filtered queries: each predicate omitted, given as
\* the empty string where it is a string, or given a value some task has;
\* the default sort; each limit from 1.
FilterArgs ==
    {QueryArgs(fs, fa, fc, "created_at", TRUE, lim) :
        fs \in {NoFilter, "PENDING"},
        fa \in {NoFilter, "", FixtureAgent},
        fc \in {NoFilter, "", "user-X"},
        lim \in 1..MaxLimit}

InitFilter == LoadedFrom(FilterDicts, FilterArgs)

NextFilter ==
    \/ Query
    \/ QueryNextPage

SpecFilter == InitFilter /\ [][NextFilter]_vars

----------------------------------------------------------------------------
(* Selections while the prerequisites change *)

\* The most candidates of a call whose prerequisites change.
MaxCandidates == 2

\* The id of the candidate at position i: the candidates are not the tasks
\* they wait for.
CandidateId(i) == NumTasks + i

\* Candidate lists: the candidate at position i has the variant v[i].
ListOf(v) ==
    [i \in DOMAIN v |->
        TaskWith(CandidateId(i), "PENDING", v[i].priority, v[i].created_at,
                 FixtureAgent, {}, v[i].blocked_by)]

\* Every list of at most MaxCandidates pending candidates that differ in the
\* prerequisites they name.
DependentLists ==
    {ListOf(v) : v \in UNION {[1..n -> [priority : {FixturePriority},
                                        created_at : {FixtureCreatedAt},
                                        blocked_by : SUBSET TaskIds]] :
                                n \in 0..MaxCandidates}}

\* The resources the callers report: none, and the tests' 1000 MB, 4.0 cores.
Resources == {<<0, 0>>, <<1000, 4>>}

\* A new service, and a scheduler that holds a candidate list.
InitStrategy ==
    /\ active = <<>> /\ activeFile = NoFile
    /\ archive = <<>> /\ archiveFile = NoFile
    /\ repo = <<>> /\ repoFile = NoFile
    /\ NoCall /\ NoQuery
    /\ candidates \in DependentLists
    /\ available = <<0, 0>> /\ selected = <<>>
    /\ next_tasks_to_run = <<>> /\ calls = NoCalls /\ NoHistory

\* strategy.select_tasks(candidates, ram, cpu)
SelectTasks(res) ==
    /\ selected' = select_tasks(Svc, candidates, res[1], res[2])
    /\ available' = res
    /\ lastOp' = "select_tasks" /\ lastArg' = None /\ lastIn' = {}
    /\ exc' = "none" /\ ret' = None
    /\ UNCHANGED candidates
    /\ UNCHANGED <<svcVars, repoVars, queryVars, schedVars>>

\* The task is deleted from the repositories of the service.
DeleteTask(task_id) ==
    LET a == delete_by_id(Svc._active_repo, task_id)
        r == delete_by_id(Svc._archive_repo, task_id)
    IN  /\ SvcBecomes(Service(a.self, r.self))
        /\ Called("delete_by_id", IdArg(task_id), "none", None)
        /\ UNCHANGED <<repoVars, queryVars, stratVars, schedVars>>

NextStrategy ==
    \/ \E res \in Resources : SelectTasks(res)
    \/ \E task \in Tasks : UpdateTask(task)
    \/ \E task_id \in TaskIds : DeleteTask(task_id)

SpecStrategy == InitStrategy /\ [][NextStrategy]_vars

----------------------------------------------------------------------------
(* Selections from long candidate lists *)

\* Short lists of candidates that differ in priority, age and in whether
\* they wait for task 1.
ShortLists ==
    {ListOf(v) : v \in UNION {[1..n -> [priority : {1, FixturePriority},
                                        created_at : CreatedAts,
                                        blocked_by : {{}, {1}}]] :
                                n \in 0..MaxCandidates}}

\* Lists one longer than the cap, of candidates of two priorities; the first
\* of them may wait for task 1, which leaves as many unblocked as the cap.
LongLists ==
    {ListOf([i \in 1..(SelectionCap + 1) |->
                [priority |-> pr[i], created_at |-> FixtureCreatedAt,
                 blocked_by |-> IF i = 1 THEN bl ELSE {}]]) :
        pr \in [1..(SelectionCap + 1) -> {1, FixturePriority}], bl \in {{}, {1}}}

\* A service whose active repository holds the running task 1, and a
\* scheduler with a candidate list and with or without a task in its cache.
InitCap ==
    /\ active = <<Task(1, "RUNNING", FixturePriority)>>
    /\ activeFile = SaveToFile(active)
    /\ archive = <<>> /\ archiveFile = NoFile
    /\ repo = <<>> /\ repoFile = NoFile
    /\ NoCall /\ NoQuery
    /\ candidates \in ShortLists \cup LongLists
    /\ available = <<0, 0>> /\ selected = <<>>
    /\ next_tasks_to_run \in {<<>>, <<Task(1, "RUNNING", FixturePriority)>>}
    /\ calls = NoCalls /\ NoHistory

NextCap == \E res \in Resources : SelectTasks(res)

SpecCap == InitCap /\ [][NextCap]_vars

----------------------------------------------------------------------------
(* The scheduler *)

\* The tasks the callers of the scheduler pass with a status of S: the
\* fixtures' tasks, and tasks other than task 1 that wait for task 1.
SchedulerTasks(S) ==
    {t \in Tasks : t.status \in S} \cup
    {TaskWith(id, st, FixturePriority, FixtureCreatedAt, FixtureAgent, {}, {1}) :
        id \in TaskIds \ {1}, st \in S}

\* A chat event submits a new task, or one that claims to be running; an
\* executor reports a task as checkpointed, completed or failed.
SubmittedTasks == SchedulerTasks({"NEW", "RUNNING"})
ReportedTasks == SchedulerTasks({"PENDING", "COMPLETED", "FAILED"})

\* What the monitor may do in a call.
Monitors ==
    {Monitor(0, res) : res \in Resources} \cup {Monitor(1, <<0, 0>>), Monitor(2, <<0, 0>>)}

\* The scheduler object in the current state.
Sched == Scheduler(Svc, next_tasks_to_run)

\* The record of a scheduler call that passes a task to the data service.
Passed(op, e) ==
    /\ lastOp' = op /\ lastArg' = None /\ lastIn' = {}
    /\ exc' = e /\ ret' = None
    /\ UNCHANGED <<repoVars, queryVars, stratVars, schedVars>>

\* scheduler.submit_task(task)
SubmitTask(task) ==
    LET o == add_task(Svc, task)
    IN  SvcBecomes(o.self) /\ Passed("submit_task", o.exc)

\* scheduler.update_task(task): the executor reports on a task.
ReportTask(task) ==
    LET o == update_task(Svc, task)
    IN  SvcBecomes(o.self) /\ Passed("report_task", o.exc)

\* The record of a get_next_task call that ended as o.
Recorded(o) ==
    /\ SvcBecomes(o.self._data_service)
    /\ calls' = o.calls
    /\ candidates' = o.candidates
    /\ available' = o.available
    /\ selected' = o.selected
    /\ lastOp' = "get_next_task" /\ lastArg' = None /\ lastIn' = {}
    /\ exc' = o.exc /\ ret' = o.ret
    /\ UNCHANGED <<repoVars, queryVars>>

\* A get_next_task call of the scheduler ended as o.
GotNext(o) ==
    /\ Recorded(o)
    /\ next_tasks_to_run' = o.self._next_tasks_to_run
    /\ UNCHANGED histVars

\* scheduler.get_next_task()
GetNextTask(monitor) == GotNext(get_next_task(Sched, monitor))

NextScheduler ==
    \/ \E task \in SubmittedTasks : SubmitTask(task)
    \/ \E task \in ReportedTasks : ReportTask(task)
    \/ \E monitor \in Monitors : GetNextTask(monitor)

SpecScheduler == Init /\ [][NextScheduler]_vars

----------------------------------------------------------------------------
(* The scheduler, with what it has handed out *)

\* The call that ended as o was a refill that selected tasks and returned.
Refilled(o) == o.calls.select = 1 /\ o.selected # <<>> /\ o.exc = "none"

\* The call that ended as o returned a task.
Handed(o) == o.exc = "none" /\ o.ret # None

\* The ids that scheduler by has handed out and that were not re-queued.
Marks(by, ids) == {<<by, id>> : id \in ids}

\* A get_next_task call of scheduler by ended as o: the batch, the tasks
\* returned of it and the ids handed out are kept.
Kept(by, o) ==
    /\ batch' = IF Refilled(o) THEN o.selected ELSE batch
    /\ served' = IF Refilled(o) THEN <<o.ret>>
                 ELSE IF Handed(o) THEN Append(served, o.ret)
                 ELSE served
    /\ dispatched' = IF Handed(o)
                     THEN dispatched \cup Marks(by, {o.ret.task_id})
                     ELSE dispatched

\* A get_next_task call of the scheduler ended as o.
GotNextKept(o) ==
    /\ Recorded(o)
    /\ next_tasks_to_run' = o.self._next_tasks_to_run
    /\ Kept("scheduler", o)
    /\ UNCHANGED <<peer_tasks_to_run, quiet, pc, written>>

\* scheduler.get_next_task()
GetNextTaskKept(monitor) == GotNextKept(get_next_task(Sched, monitor))

\* A scheduler call passed a task to the data service, which ended as o; a
\* task set to NEW or PENDING is no longer handed out.
PassedKept(op, task, o) ==
    /\ SvcBecomes(o.self)
    /\ lastOp' = op /\ lastArg' = None /\ lastIn' = {}
    /\ exc' = o.exc /\ ret' = None
    /\ dispatched' = IF op = "report_task" /\ o.exc = "none"
                        /\ task.status \in {"NEW", "PENDING"}
                     THEN {d \in dispatched : d[2] # task.task_id}
                     ELSE dispatched
    /\ UNCHANGED <<repoVars, queryVars, stratVars, next_tasks_to_run, calls>>
    /\ UNCHANGED <<peer_tasks_to_run, batch, served, quiet, pc, written>>

\* scheduler.submit_task(task)
SubmitTaskKept(task) == PassedKept("submit_task", task, add_task(Svc, task))

\* scheduler.update_task(task): the executor reports on a task.
ReportTaskKept(task) == PassedKept("report_task", task, update_task(Svc, task))

\* The tasks submitted, and the tasks reported as re-queued or completed.
SubmittedNew == {t \in SubmittedTasks : t.status = "NEW"}
ReportedBack == {t \in ReportedTasks : t.status \in {"PENDING", "COMPLETED"}}

NextDispatch ==
    \/ \E task \in SubmittedNew : SubmitTaskKept(task)
    \/ \E task \in ReportedBack : ReportTaskKept(task)
    \/ \E monitor \in Monitors : GetNextTaskKept(monitor)

\* The scheduler under any sequence of calls, with the history of what it
\* handed out.
SpecDispatch == Init /\ [][NextDispatch]_vars

----------------------------------------------------------------------------
(* The scheduler with tasks of two priorities *)

\* The highest urgency a task may have.
HighestPriority == 1

\* The tasks submitted: those of the fixtures' priority, and urgent ones.
SubmittedUrgent ==
    SubmittedNew \cup {Task(id, "NEW", HighestPriority) : id \in TaskIds}

\* The tasks an executor re-queues or completes.
ReportedUrgent == {t \in Tasks : t.status \in {"PENDING", "COMPLETED"}}

NextUrgency ==
    \/ \E task \in SubmittedUrgent : SubmitTaskKept(task)
    \/ \E task \in ReportedUrgent : ReportTaskKept(task)
    \/ \E monitor \in Monitors : GetNextTaskKept(monitor)

SpecUrgency == Init /\ [][NextUrgency]_vars

----------------------------------------------------------------------------
(* The scheduler when its callers fall silent *)

\* From here on nobody submits a task and no executor reports.
Quiesce ==
    /\ ~quiet
    /\ quiet' = TRUE
    /\ UNCHANGED <<svcVars, repoVars, queryVars, stratVars, next_tasks_to_run, calls>>
    /\ UNCHANGED <<lastOp, lastArg, lastIn, exc, ret>>
    /\ UNCHANGED <<peer_tasks_to_run, batch, served, dispatched, pc, written>>

\* A caller calls scheduler.get_next_task().
CallGetNextTask ==
    /\ pc = "idle"
    /\ pc' = "get_next_task"
    /\ UNCHANGED <<svcVars, repoVars, queryVars, stratVars, next_tasks_to_run, calls>>
    /\ UNCHANGED <<lastOp, lastArg, lastIn, exc, ret>>
    /\ UNCHANGED <<peer_tasks_to_run, batch, served, dispatched, quiet, written>>

\* The get_next_task call under way ended as o and returns to its caller.
GotNextReturned(o) ==
    /\ pc = "get_next_task"
    /\ Recorded(o)
    /\ next_tasks_to_run' = o.self._next_tasks_to_run
    /\ pc' = "idle"
    /\ UNCHANGED <<peer_tasks_to_run, batch, served, dispatched, quiet, written>>

\* The call returns, whatever the monitor did.
ReturnFromGetNextTask(monitor) == GotNextReturned(get_next_task(Sched, monitor))

\* The calls do not overlap.
NextEventual ==
    \/ \E task \in SubmittedNew : ~quiet /\ pc = "idle" /\ SubmitTask(task)
    \/ \E task \in ReportedBack : ~quiet /\ pc = "idle" /\ ReportTask(task)
    \/ Quiesce
    \/ CallGetNextTask
    \/ \E monitor \in Monitors : ReturnFromGetNextTask(monitor)

\* The callers fall silent at some point or never; get_next_task is called
\* again and again, and every call returns: the method has no loop but the
\* ones over the selected tasks.
SpecEventual ==
    /\ Init /\ [][NextEventual]_vars
    /\ WF_vars(CallGetNextTask)
    /\ (pc = "get_next_task") ~> (pc = "idle")

----------------------------------------------------------------------------
(* The scheduler with a backlog longer than a selection *)

\* The backlogs: checkpointed tasks of one priority and age, one fewer and
\* one more than a selection holds.
Backlogs ==
    {ListOf([i \in 1..n |-> [priority |-> FixturePriority,
                             created_at |-> FixtureCreatedAt,
                             blocked_by |-> {}]]) :
        n \in {SelectionCap - 1, SelectionCap + 1}}

\* A service whose active repository holds a backlog, and a new scheduler.
InitBacklog ==
    /\ active \in Backlogs /\ activeFile = SaveToFile(active)
    /\ archive = <<>> /\ archiveFile = NoFile
    /\ repo = <<>> /\ repoFile = NoFile
    /\ NoCall /\ NoQuery /\ NoSelection
    /\ next_tasks_to_run = <<>> /\ calls = NoCalls /\ NoHistory

\* The executors report the first two tasks of the backlog as checkpointed
\* or completed.
BacklogReported ==
    {TaskWith(CandidateId(i), st, FixturePriority, FixtureCreatedAt,
              FixtureAgent, {}, {}) :
        i \in 1..2, st \in {"PENDING", "COMPLETED"}}

NextBacklog ==
    \/ \E task \in BacklogReported : ReportTask(task)
    \/ \E monitor \in Monitors : GetNextTask(monitor)

SpecBacklog == InitBacklog /\ [][NextBacklog]_vars

----------------------------------------------------------------------------
(* Two schedulers on one data service *)

\* The second scheduler object in the current state: it shares the data
\* service and has a cache of its own.
Peer == Scheduler(Svc, peer_tasks_to_run)

\* A get_next_task call of the second scheduler ended as o.
PeerGotNextKept(o) ==
    /\ Recorded(o)
    /\ peer_tasks_to_run' = o.self._next_tasks_to_run
    /\ Kept("peer", o)
    /\ UNCHANGED <<next_tasks_to_run, quiet, pc, written>>

\* peer.get_next_task()
PeerGetNextTaskKept(monitor) == PeerGotNextKept(get_next_task(Peer, monitor))

\* Callers submit tasks, nobody calls update_task, and the get_next_task
\* calls of the two schedulers run one after the other.
NextPeers ==
    \/ \E task \in SubmittedNew : SubmitTaskKept(task)
    \/ \E monitor \in Monitors : GetNextTaskKept(monitor)
    \/ \E monitor \in Monitors : PeerGetNextTaskKept(monitor)

SpecPeers == Init /\ [][NextPeers]_vars

----------------------------------------------------------------------------
(* Federated queries of the two repositories *)

\* The tasks of the active repository and of the archive whose pages are
\* read: they differ in id and created_at.
ActiveRows == {t \in QueryTasks : t.status = "PENDING"}
ArchiveRows == {t \in QueryTasks : t.status = "COMPLETED"}

\* The arguments of the federated queries: no status filter, an active
\* status or a finished one; the default sort; each limit from 0.
FederatedArgs ==
    {QueryArgs(fs, NoFilter, NoFilter, "created_at", TRUE, lim) :
        fs \in {NoFilter, "PENDING", "COMPLETED"}, lim \in 0..MaxLimit}

\* The contents of the two repositories: at most NumRows tasks together.
StoredPairs ==
    {p \in Dicts(ActiveRows) \X Dicts(ArchiveRows) : Len(p[1]) + Len(p[2]) <= NumRows}

\* A service whose repositories were loaded from files that hold one of the
\* pairs, and a caller that reads them with the same arguments in every
\* call.
InitFederated ==
    /\ \E p \in StoredPairs : active = p[1] /\ archive = p[2]
    /\ activeFile = FileOf(active)
    /\ archiveFile = FileOf(archive)
    /\ repo = <<>> /\ repoFile = NoFile
    /\ NoCall /\ NoSelection
    /\ qArgs \in FederatedArgs /\ qKey = NoKey
    /\ qPage = <<>> /\ qNext = NoKey /\ qAcc = <<>>
    /\ next_tasks_to_run = <<>> /\ calls = NoCalls /\ NoHistory

\* A call that returned or raised as r tells; thread tells whether its page
\* continues the pages read so far.
Returned(op, key, thread, r) ==
    /\ lastOp' = op
    /\ qKey' = key
    /\ qPage' = r.page /\ qNext' = r.next_key /\ exc' = r.exc
    /\ qAcc' = IF r.exc # "none" THEN <<>>
               ELSE IF thread THEN Append(qAcc, r.page) ELSE <<r.page>>
    /\ UNCHANGED <<qArgs, lastArg, lastIn, ret>>
    /\ UNCHANGED <<svcVars, repoVars, stratVars, schedVars>>

\* The call query_all_tasks(**qArgs, exclusive_start_key=key) was made.
QueriedAll(op, key, thread) ==
    Returned(op, key, thread, query_all_tasks(Svc, qArgs, key))

\* The first page: query_all_tasks without a cursor.
QueryAll == QueriedAll("query_all", NoKey, FALSE)

\* The next page: the same arguments, with the cursor just returned.
QueryAllNextPage ==
    /\ lastOp \in {"query_all", "query_all_next"}
    /\ exc = "none"
    /\ qNext.given
    /\ QueriedAll("query_all_next", qNext, TRUE)

\* A page after a cursor the caller kept from earlier.
QueryAllFrom(last_id) == QueriedAll("query_all_from", LastId(last_id), FALSE)

NextFederated ==
    \/ QueryAll
    \/ QueryAllNextPage
    \/ \E last_id \in 1..(NumRows + 1) : QueryAllFrom(last_id)

SpecFederated == InitFederated /\ [][NextFederated]_vars

----------------------------------------------------------------------------
(* Vocabulary of the properties *)

\* The status classes of the two stores.
ActiveClass == {"NEW", "PENDING", "RUNNING"}
ArchiveClass == {"COMPLETED", "FAILED", "CANCELLED"}

\* The record stored under id in d is t.
Holds(d, id, t) == \E i \in DOMAIN d : d[i].task_id = id /\ d[i] = t

\* Every entry of d whose key is not id is in e with the same record, and
\* e has no other key besides id.
OthersSame(d, e, id) ==
    /\ Keys(e) \ {id} = Keys(d) \ {id}
    /\ \A i \in DOMAIN d : d[i].task_id # id => Holds(e, d[i].task_id, d[i])

----------------------------------------------------------------------------
(* C1 *)

\* C1: no task id is stored in the active and in the archive repository at
\* the same time, after any sequence of add_task and update_task calls.
C1_SingleLocation ==
    \A id \in TaskIds : ~(Contains(active, id) /\ Contains(archive, id))

(* C2 *)

MigrationEffect(t) ==
    /\ exc' = "none"
    /\ ~Contains(active', t.task_id)
    /\ Holds(archive', t.task_id, t)
    /\ OthersSame(active, active', t.task_id)
    /\ OthersSame(archive, archive', t.task_id)

\* C3: update_task of a task stored in active with an active-class status,
\* to an archive-class status, leaves the id absent from active and stored
\* in archive as exactly the supplied record, and changes no other id.
C3_MigrationCorrect ==
    [][(/\ lastOp' = "update_task"
        /\ lastArg'.status \in ArchiveClass
        /\ Contains(active, lastArg'.task_id)
        /\ DictGet(active, lastArg'.task_id).status \in ActiveClass)
       => MigrationEffect(lastArg')]_vars

\* An update_task has just moved a task from active to archive while the
\* other id was stored too.
C3_Witness ==
    /\ lastOp = "update_task" /\ exc = "none"
    /\ lastArg.status \in ArchiveClass
    /\ lastIn = {"active"}
    /\ Holds(archive, lastArg.task_id, lastArg)
    /\ Keys(active) \cup Keys(archive) = TaskIds

(* C4 *)

\* The effect C4 states for update_task(t) on a task stored in archive and
\* given an active-class status.
RequeueEffect(t) ==
    /\ exc' = "none"
    /\ ~Contains(archive', t.task_id)
    /\ Holds(active', t.task_id, t)

\* The effect C4 states for update_task(t) when t's status is in the class
\* of the record stored in store: replaced there, the other store unchanged.
InPlaceEffect(t, store, storeAfter, other, otherAfter) ==
    /\ exc' = "none"
    /\ Holds(storeAfter, t.task_id, t)
    /\ OthersSame(store, storeAfter, t.task_id)
    /\ otherAfter = other

\* C4: update_task of an archived task to an active-class status moves it to
\* active as exactly the supplied record; an update_task whose status is in
\* the class of the stored record replaces it in place and leaves the other
\* repository unchanged.
C4_RequeueAndInPlace ==
    [][lastOp' = "update_task" =>
        /\ (/\ Contains(archive, lastArg'.task_id)
            /\ DictGet(archive, lastArg'.task_id).status \in ArchiveClass
            /\ lastArg'.status \in ActiveClass)
           => RequeueEffect(lastArg')
        /\ (/\ Contains(active, lastArg'.task_id)
            /\ DictGet(active, lastArg'.task_id).status \in ActiveClass
            /\ lastArg'.status \in ActiveClass)
           => InPlaceEffect(lastArg', active, active', archive, archive')
        /\ (/\ Contains(archive, lastArg'.task_id)
            /\ DictGet(archive, lastArg'.task_id).status \in ArchiveClass
            /\ lastArg'.status \in ArchiveClass)
           => InPlaceEffect(lastArg', archive, archive', active, active')]_vars

(* C5 *)

\* C5: add_task of a task whose status is not NEW raises ValueError and
\* changes neither repository; add_task of a NEW task whose id is not in
\* active stores it in active; add_task never writes to the archive.
C5_AddTaskValidation ==
    [][lastOp' = "add_task" =>
        /\ lastArg'.status # "NEW"
           => (exc' = "ValueError" /\ UNCHANGED svcVars)
        /\ (lastArg'.status = "NEW" /\ ~Contains(active, lastArg'.task_id))
           => /\ exc' = "none"
              /\ Holds(active', lastArg'.task_id, lastArg')
              /\ OthersSame(active, active', lastArg'.task_id)
        /\ UNCHANGED <<archive, archiveFile>>]_vars

\* An add_task with a status other than NEW has just been refused while a
\* record was stored.
C5_Witness ==
    /\ lastOp = "add_task" /\ lastArg.status # "NEW"
    /\ exc = "ValueError"
    /\ active # <<>> /\ archive # <<>>

(* C6 *)

\* C6: update_task of a task whose id is in neither repository raises
\* KeyError and changes neither repository.
C6_UpdateAbsentNotFound ==
    [][(/\ lastOp' = "update_task"
        /\ ~Contains(active, lastArg'.task_id)
        /\ ~Contains(archive, lastArg'.task_id))
       => (exc' = "KeyError" /\ UNCHANGED svcVars)]_vars

(* C7 *)

\* C7: get_task_by_id returns active's record when the id is in active,
\* otherwise archive's record when it is there, otherwise None; it raises
\* nothing and changes neither repository.
C7_GetTaskById ==
    [][lastOp' = "get_task_by_id" =>
        /\ exc' = "none"
        /\ UNCHANGED svcVars
        /\ \/ Holds(active, lastArg'.task_id, ret')
           \/ /\ lastArg'.task_id \notin Keys(active)
              /\ Holds(archive, lastArg'.task_id, ret')
           \/ /\ lastArg'.task_id \notin Keys(active) \cup Keys(archive)
              /\ ret' = None]_vars

\* A get_task_by_id has just answered from the archive for an id that is
\* not in active.
C7_Witness ==
    /\ lastOp = "get_task_by_id"
    /\ lastIn = {"archive"}
    /\ ret.task_id = lastArg.task_id
    /\ ret.status \in ArchiveClass

----------------------------------------------------------------------------
(* C8 *)

\* C8: add of a task whose id is stored raises ValueError and leaves the
\* mapping unchanged; add of an absent id stores exactly that record and
\* changes no other entry.
C8_AddUniqueness ==
    [][lastOp' = "add" =>
        /\ Contains(repo, lastArg'.task_id)
           => (exc' = "ValueError" /\ UNCHANGED repoVars)
        /\ ~Contains(repo, lastArg'.task_id)
           => /\ exc' = "none"
              /\ Holds(repo', lastArg'.task_id, lastArg')
              /\ OthersSame(repo, repo', lastArg'.task_id)]_vars

\* An add of a stored id, with a record other than the stored one, has just
\* been refused.
C8_Witness ==
    /\ lastOp = "add" /\ exc = "ValueError"
    /\ lastIn = {"repo"}
    /\ ~Holds(repo, lastArg.task_id, lastArg)

(* C9 *)

\* C9: update of a task whose id is not stored raises KeyError and leaves
\* the mapping unchanged; update of a stored id replaces that record with
\* the supplied one and changes no other entry.
C9_Update ==
    [][lastOp' = "update" =>
        /\ ~Contains(repo, lastArg'.task_id)
           => (exc' = "KeyError" /\ UNCHANGED repoVars)
        /\ Contains(repo, lastArg'.task_id)
           => /\ exc' = "none"
              /\ Holds(repo', lastArg'.task_id, lastArg')
              /\ OthersSame(repo, repo', lastArg'.task_id)]_vars

\* An update of an id that is not stored has just been refused while
\* another id was stored.
C9_Witness ==
    /\ lastOp = "update" /\ exc = "KeyError"
    /\ lastIn = {}
    /\ repo # <<>>

(* C10 *)

\* C10: delete_by_id raises nothing; it leaves the id absent and every other
\* entry unchanged; on an absent id it changes nothing; and applied again to
\* the state it produced it changes nothing.
C10_DeleteIdempotent ==
    [][lastOp' = "delete_by_id" =>
        /\ exc' = "none"
        /\ ~Contains(repo', lastArg'.task_id)
        /\ OthersSame(repo, repo', lastArg'.task_id)
        /\ ~Contains(repo, lastArg'.task_id) => UNCHANGED repoVars
        /\ delete_by_id(Repository(repo', repoFile'), lastArg'.task_id)
             = Outcome(Repository(repo', repoFile'), "none")]_vars

\* A delete_by_id of an id that is not stored has just returned while
\* another id was stored.
C10_Witness ==
    /\ lastOp = "delete_by_id" /\ exc = "none"
    /\ lastIn = {}
    /\ repo # <<>>

----------------------------------------------------------------------------
(* Vocabulary of the query properties *)

\* The pages one after the other.
RECURSIVE Concat(_)
Concat(pages) ==
    IF pages = <<>> THEN <<>> ELSE Head(pages) \o Concat(Tail(pages))

\* The ids of the tasks of a list.
IdsOf(l) == {l[i].task_id : i \in DOMAIN l}

\* No task_id occurs twice in the list.
EachOnce(l) == \A i, j \in DOMAIN l : i # j => l[i].task_id # l[j].task_id

\* A predicate is supplied when its argument is not None.
Supplied(x) == x # NoFilter

\* The task satisfies every supplied predicate of the arguments.
Matches(a, t) ==
    /\ Supplied(a.filter_status) => t.status = a.filter_status
    /\ Supplied(a.filter_agent_id) => t.agent_id = a.filter_agent_id
    /\ Supplied(a.filter_correlation_id) => a.filter_correlation_id \in t.correlation_ids

\* The stored tasks that satisfy every supplied predicate.
Matching(tasks, a) == {tasks[i] : i \in {j \in DOMAIN tasks : Matches(a, tasks[j])}}

\* The field the result is ordered by.
OrderedBy(a) == IF a.sort_field = "priority" THEN "priority" ELSE "created_at"

\* The list is in the sort order of the arguments.
InSortOrder(l, a) ==
    \A i \in 1..(Len(l) - 1) :
        IF a.sort_ascending
        THEN GetAttr(l[i], OrderedBy(a)) <= GetAttr(l[i + 1], OrderedBy(a))
        ELSE GetAttr(l[i], OrderedBy(a)) >= GetAttr(l[i + 1], OrderedBy(a))

\* The last call read a page of a pass that began without a cursor.
ReadingPages == lastOp \in {"query", "query_next"}

----------------------------------------------------------------------------
(* C11 *)

\* C11: with a limit of at least 1 and no mutation between the calls, the
\* pages read by threading next_key, one after the other, are a prefix of the
\* sorted filtered result: no error, no task_id twice, only matching tasks,
\* in sort order, every page before the current one of size limit; and the
\* cursor is absent exactly when the pages are the whole result, which then
\* holds every matching task_id.
C11_PaginationRoundTrip ==
    (ReadingPages /\ qArgs.limit >= 1) =>
        LET all == Concat(qAcc)
            full == SortedFiltered(repo, qArgs)
        IN  /\ exc = "none"
            /\ qAcc # <<>> /\ qAcc[Len(qAcc)] = qPage
            /\ \A i \in 1..(Len(qAcc) - 1) : Len(qAcc[i]) = qArgs.limit
            /\ Len(qPage) <= qArgs.limit
            /\ all = SubSeq(full, 1, Len(all))
            /\ EachOnce(all)
            /\ InSortOrder(all, qArgs)
            /\ \A i \in DOMAIN all : all[i] \in Matching(repo, qArgs)
            /\ ~qNext.given <=> all = full
            /\ ~qNext.given => IdsOf(all) = {t.task_id : t \in Matching(repo, qArgs)}

\* Two full pages and a short last one were read with a status filter.
C11_Witness ==
    /\ lastOp = "query_next" /\ exc = "none" /\ ~qNext.given
    /\ qArgs.filter_status = "PENDING" /\ qArgs.limit = 1
    /\ Len(qAcc) = 3
    /\ \A i \in DOMAIN qAcc : Len(qAcc[i]) = 1

----------------------------------------------------------------------------
(* C12 *)

\* A query call was the last call.
AfterQuery == lastOp \in {"query", "query_next", "query_from"}

\* C12: every query call, whatever the contents, filter, cursor and limit
\* (0 included), returns normally, and its next_key is given exactly when the
\* sorted filtered result has rows beyond the returned page; its last_id is
\* then the task_id of the last task of the page.
C12_NextKey ==
    AfterQuery =>
        LET full == SortedFiltered(repo, qArgs)
            beyond == StartIndex(full, qKey) + Len(qPage) < Len(full)
        IN  /\ exc = "none"
            /\ qNext.given <=> beyond
            /\ qNext.given =>
                    /\ qPage # <<>>
                    /\ qNext.last_id = qPage[Len(qPage)].task_id

----------------------------------------------------------------------------
(* C13 *)

\* C13: a query whose cursor names no task of the sorted filtered result
\* raises no error and returns the page that starts at position 0.
C13_StaleCursor ==
    (lastOp = "query_from" /\ qKey.last_id \notin IdsOf(SortedFiltered(repo, qArgs))) =>
        /\ exc = "none"
        /\ qPage = Slice(SortedFiltered(repo, qArgs), 0, qArgs.limit)

----------------------------------------------------------------------------
(* C14 *)

\* C14: when the pages of a query have all been read, the tasks they span
\* are exactly the stored tasks that satisfy every supplied predicate:
\* status equal to filter_status, agent_id equal to filter_agent_id,
\* filter_correlation_id among correlation_ids.
C14_ConjunctiveFilter ==
    (ReadingPages /\ exc = "none" /\ ~qNext.given) =>
        LET all == Concat(qAcc)
        IN  {all[i] : i \in DOMAIN all} = Matching(repo, qArgs)

----------------------------------------------------------------------------
(* C15 *)

\* The repositories that hold the same task records as d, in any insertion
\* order.
SameRecords(d) ==
    {e \in [DOMAIN d -> {d[i] : i \in DOMAIN d}] :
        {e[i] : i \in DOMAIN e} = {d[i] : i \in DOMAIN d}}

\* C15: every repository that holds the same task records answers the call
\* just made with the same ordered page and the same next_key, whatever the
\* order its records were added in.
C15_OrderDeterministic ==
    AfterQuery =>
        \A d \in SameRecords(repo) :
            query(Repository(d, FileOf(d)), qArgs, qKey) = QueryResult(qPage, qNext, exc)

----------------------------------------------------------------------------
(* Vocabulary of the selection properties *)

\* select_tasks was the last call, on a list no longer than the cap.
Selected == lastOp = "select_tasks" /\ Len(candidates) <= SelectionCap

\* The candidate at position i is not in the selection.
Excluded(i) == \A k \in DOMAIN selected : selected[k] # candidates[i]

\* The stored task the id resolves to, None when there is none.
Resolves(task_id) == get_task_by_id(Svc, task_id)

\* The prerequisite is stored with a status of S.
StoredWith(task_id, S) ==
    Resolves(task_id) # None /\ Resolves(task_id).status \in S

\* The statuses the blocking filter names.
Blocking == {"NEW", "PENDING", "RUNNING", "FAILED"}

\* Some prerequisite of t other than task_id is stored with a blocking status.
AnotherBlocks(t, task_id) ==
    \E id \in t.blocked_by \ {task_id} : StoredWith(id, Blocking)

----------------------------------------------------------------------------
(* C16 *)

----------------------------------------------------------------------------
(* C17 *)

NonTerminal == {"NEW", "PENDING", "RUNNING"}
Terminal == {"COMPLETED", "FAILED", "CANCELLED"}

\* The prerequisite resolves to no stored task.
Unresolved(task_id) == Resolves(task_id) = None

\* C17 as stated: select_tasks excludes a candidate exactly when one of its
\* prerequisites is unresolved or stored with a non-terminal status (NEW,
\* PENDING, RUNNING); a candidate whose prerequisites are all stored and
\* terminal (COMPLETED, FAILED, CANCELLED) is returned.
C17_UnresolvedOrNonTerminal ==
    Selected =>
        \A i \in DOMAIN candidates :
            /\ Excluded(i) <=>
                    \E id \in candidates[i].blocked_by :
                        Unresolved(id) \/ StoredWith(id, NonTerminal)
            /\ (\A id \in candidates[i].blocked_by : StoredWith(id, Terminal))
                    => ~Excluded(i)

\* C17, amended: select_tasks excludes a candidate exactly when one of its
\* prerequisites is stored with a non-terminal status or with FAILED; a
\* candidate each of whose prerequisites is unresolved, COMPLETED or
\* CANCELLED is returned.
C17_StoredNonTerminalOrFailed ==
    Selected =>
        \A i \in DOMAIN candidates :
            /\ Excluded(i) <=>
                    \E id \in candidates[i].blocked_by :
                        ~Unresolved(id) /\ StoredWith(id, NonTerminal \cup {"FAILED"})
            /\ (\A id \in candidates[i].blocked_by :
                    Unresolved(id) \/ StoredWith(id, Terminal \ {"FAILED"}))
                    => ~Excluded(i)

\* A call returned a candidate whose prerequisite is not stored and excluded
\* one whose prerequisite has failed.
C17_Witness ==
    /\ lastOp = "select_tasks"
    /\ Len(candidates) = 2
    /\ candidates[1].blocked_by = {1} /\ Unresolved(1)
    /\ candidates[2].blocked_by = {2} /\ StoredWith(2, {"FAILED"})
    /\ selected = <<candidates[1]>>

----------------------------------------------------------------------------
(* C18 *)

\* a may come right before b: a.priority < b.priority, or the priorities are
\* equal and a.created_at <= b.created_at.
InOrder(a, b) ==
    \/ a.priority < b.priority
    \/ (a.priority = b.priority /\ a.created_at <= b.created_at)

\* Any two consecutive tasks of the list are in order.
Ascending(l) == \A k \in 1..(Len(l) - 1) : InOrder(l[k], l[k + 1])

\* The (priority, created_at) pairs of the list, one after the other.
SortKeys(l) == [k \in DOMAIN l |-> <<l[k].priority, l[k].created_at>>]

\* C18: the list select_tasks returns is ascending in (priority, created_at),
\* and a call with the same candidates in any other order returns a list
\* with the same sequence of (priority, created_at) pairs.
C18_Ordering ==
    lastOp = "select_tasks" =>
        /\ Ascending(selected)
        /\ Len(candidates) <= MaxCandidates =>
                \A l \in SameRecords(candidates) :
                    SortKeys(select_tasks(Svc, l, available[1], available[2]))
                        = SortKeys(selected)

\* Two candidates of one priority were returned, the older one first although
\* it came second in the input.
C18_Witness ==
    /\ lastOp = "select_tasks"
    /\ Len(candidates) = 2
    /\ candidates[1].priority = candidates[2].priority
    /\ candidates[1].created_at > candidates[2].created_at
    /\ selected = <<candidates[2], candidates[1]>>

----------------------------------------------------------------------------
(* C19 *)

\* The positions of the candidates no stored prerequisite blocks.
UnblockedAt ==
    {i \in DOMAIN candidates :
        ~\E id \in candidates[i].blocked_by : StoredWith(id, Blocking)}

Min(a, b) == IF a < b THEN a ELSE b

\* C19: select_tasks returns exactly min(n, 10) tasks, n being the number of
\* unblocked candidates: the first min(n, 10) of the sorted unblocked
\* candidates.  Every returned task is an unblocked candidate, none is
\* returned twice, and no unblocked candidate that is left out sorts before
\* a returned one.
C19_Cap ==
    lastOp = "select_tasks" =>
        LET n == Cardinality(UnblockedAt)
            first == sorted_tasks(unblocked_tasks(Svc, candidates))
        IN  /\ Len(selected) = Min(n, 10)
            /\ selected = SubSeq(first, 1, Min(n, 10))
            /\ \A k \in DOMAIN selected :
                    \E i \in UnblockedAt : candidates[i] = selected[k]
            /\ EachOnce(selected)
            /\ \A i \in UnblockedAt :
                    Excluded(i) =>
                        \A k \in DOMAIN selected :
                            InOrder(selected[k], candidates[i])

\* Of eleven unblocked candidates ten were returned: the last candidate, which
\* is urgent, among them, and the first, which is not, left out.
C19_Witness ==
    /\ lastOp = "select_tasks"
    /\ Len(candidates) = SelectionCap + 1
    /\ Cardinality(UnblockedAt) = SelectionCap + 1
    /\ Len(selected) = SelectionCap
    /\ candidates[1].priority > candidates[Len(candidates)].priority
    /\ Excluded(1) /\ ~Excluded(Len(candidates))

----------------------------------------------------------------------------
(* C20 *)

\* C20: a select_tasks call leaves the active repository, the archive
\* repository and the scheduler's cache as they were, returns records of the
\* candidate list as they are, and returns the same list whatever the
\* resource arguments: the list the call before returned for the same
\* candidates, and the list a call with any other resources returns.
C20_ReadOnly ==
    [][ lastOp' = "select_tasks" =>
            /\ UNCHANGED <<active, activeFile, archive, archiveFile>>
            /\ UNCHANGED next_tasks_to_run
            /\ UNCHANGED candidates
            /\ \A k \in DOMAIN selected' :
                    \E i \in DOMAIN candidates : selected'[k] = candidates[i]
            /\ lastOp = "select_tasks" => selected' = selected
            /\ \A res \in Resources :
                    select_tasks(Svc, candidates, res[1], res[2]) = selected'
      ]_vars

\* A call that was told no RAM and no core are available returned tasks,
\* with a task stored and a task in the scheduler's cache.
C20_Witness ==
    /\ lastOp = "select_tasks"
    /\ available = <<0, 0>>
    /\ selected # <<>>
    /\ active # <<>> /\ next_tasks_to_run # <<>>

----------------------------------------------------------------------------
(* Vocabulary of the scheduler properties *)

\* get_next_task was the last call.
AfterGetNext == lastOp = "get_next_task"

\* The last call was a get_next_task that asked the strategy.
AfterRefill == AfterGetNext /\ calls.select = 1

\* The record the active repository holds for the id, None if it holds none.
InActive(task_id) == DictGet(active, task_id)

----------------------------------------------------------------------------
(* C21 *)

\* C21: a task record that get_next_task returns, from a refill or from the
\* cache, has status RUNNING; and right after a refill get_task_by_id of the
\* returned id gives a RUNNING task, held by the active repository.
C21_ReturnedRunning ==
    (AfterGetNext /\ exc = "none" /\ ret # None) =>
        /\ ret.status = "RUNNING"
        /\ AfterRefill =>
            /\ get_task_by_id(Svc, ret.task_id).status = "RUNNING"
            /\ InActive(ret.task_id).status = "RUNNING"

----------------------------------------------------------------------------
(* C22 *)

\* C22: a get_next_task call with a non-empty cache returns the head of the
\* cache and removes just that element, calls neither the monitor nor
\* query_active_tasks nor the strategy nor update_task, and leaves both
\* repositories as they were.
C22_HotPath ==
    [][ (next_tasks_to_run # <<>> /\ lastOp' = "get_next_task") =>
            /\ exc' = "none"
            /\ ret' = Head(next_tasks_to_run)
            /\ next_tasks_to_run' = Tail(next_tasks_to_run)
            /\ calls'.monitor = 0 /\ calls'.query = 0
            /\ calls'.select = 0 /\ calls'.update = 0
            /\ UNCHANGED <<active, activeFile, archive, archiveFile>>
      ]_vars

\* A call returned a task from the cache: it asked no collaborator.
C22_Witness ==
    /\ AfterGetNext /\ exc = "none"
    /\ calls.select = 0 /\ calls.monitor = 0
    /\ ret # None
    /\ next_tasks_to_run = <<>>

----------------------------------------------------------------------------
(* C23 *)

\* C23: a get_next_task call with an empty cache whose strategy call selects
\* nothing returns absent, calls update_task not once, and leaves the cache
\* empty and both repositories as they were.
C23_NothingSelected ==
    [][ ( /\ next_tasks_to_run = <<>>
          /\ lastOp' = "get_next_task"
          /\ calls'.select = 1 /\ selected' = <<>> ) =>
            /\ exc' = "none"
            /\ ret' = None
            /\ calls'.update = 0
            /\ next_tasks_to_run' = <<>>
            /\ UNCHANGED <<active, activeFile, archive, archiveFile>>
      ]_vars

\* The strategy was given a candidate, which is blocked, and selected nothing.
C23_Witness ==
    /\ AfterRefill /\ exc = "none"
    /\ candidates # <<>> /\ selected = <<>>
    /\ ret = None /\ next_tasks_to_run = <<>>

----------------------------------------------------------------------------
(* C24 *)

\* C24: in a refill every candidate passed to the strategy is a record the
\* active repository holds at that moment with status NEW or PENDING; every
\* task the call marks RUNNING is stored as NEW or PENDING in the active
\* repository, and the only change to a record of the active repository is
\* its status going from NEW or PENDING to RUNNING.
C24_RefillCandidates ==
    [][ (lastOp' = "get_next_task" /\ calls'.select = 1) =>
            /\ \A k \in DOMAIN candidates' :
                    /\ InActive(candidates'[k].task_id) = candidates'[k]
                    /\ candidates'[k].status \in {"NEW", "PENDING"}
            /\ \A k \in DOMAIN selected' :
                    InActive(selected'[k].task_id).status \in {"NEW", "PENDING"}
            /\ calls'.update <= Len(selected')
            /\ \A id \in Keys(active) :
                    InActive(id)' # InActive(id) =>
                        /\ InActive(id).status \in {"NEW", "PENDING"}
                        /\ InActive(id)' = [InActive(id) EXCEPT !.status = "RUNNING"]
      ]_vars

\* A refill selected a NEW task and a PENDING task; both are now stored as
\* RUNNING.
C24_Witness ==
    /\ AfterRefill /\ exc = "none"
    /\ Len(selected) = 2
    /\ selected[1].status = "NEW" /\ selected[2].status = "PENDING"
    /\ \A k \in DOMAIN selected : InActive(selected[k].task_id).status = "RUNNING"

----------------------------------------------------------------------------
(* C25 *)

\* C25: a get_next_task call during which the monitor raises does not raise:
\* it asks the strategy with 0 MB of RAM and 0 cores available and returns a
\* task or absent.
C25_MonitorFailure ==
    (AfterGetNext /\ calls.monitor_failed) =>
        /\ exc = "none"
        /\ calls.select = 1
        /\ available = <<0, 0>>

----------------------------------------------------------------------------
(* C30 *)

\* C30: when a refill returns a task, update_task was called once for each
\* task of the selected batch; the batch is the returned task followed by the
\* tasks left in the cache; and the active repository holds each task of the
\* batch as it held it before the call but with status RUNNING.
C30_BatchMarked ==
    [][ ( /\ lastOp' = "get_next_task" /\ calls'.select = 1
          /\ exc' = "none" /\ ret' # None ) =>
            /\ calls'.update = Len(selected')
            /\ selected' = <<ret'>> \o next_tasks_to_run'
            /\ \A k \in DOMAIN selected' :
                    /\ InActive(selected'[k].task_id) = selected'[k]
                    /\ DictGet(active', selected'[k].task_id)
                            = [selected'[k] EXCEPT !.status = "RUNNING"]
      ]_vars

\* A refill selected two tasks, returned the first and kept the second in
\* the cache; both are stored as RUNNING.
C30_Witness ==
    /\ AfterRefill /\ exc = "none"
    /\ Len(selected) = 2
    /\ ret = selected[1] /\ next_tasks_to_run = <<selected[2]>>
    /\ calls.update = 2
    /\ \A k \in DOMAIN selected : InActive(selected[k].task_id).status = "RUNNING"

----------------------------------------------------------------------------
(* Vocabulary of the persistence properties *)

\* The last call was a mutating repository call.
AfterMutation == lastOp \in {"add", "update", "delete_by_id"}

\* The collection a reader of the file finds.
Persisted == load_from_files(repoFile)

----------------------------------------------------------------------------
(* C26 *)

\* C26: a write fault during add, update or delete_by_id leaves the call as
\* an error; so after a mutating call that returned, the collection the
\* file holds is the collection in memory.
C26_WriteFaultReported ==
    (AfterMutation /\ exc = "none") => Persisted = repo

----------------------------------------------------------------------------
(* C27 *)

----------------------------------------------------------------------------
(* Vocabulary of the federated query properties *)

\* The last call read a page of a federated pass that began without a cursor.
ReadingAll == lastOp \in {"query_all", "query_all_next"}

\* The last call was a query_all_tasks call.
AfterQueryAll == lastOp \in {"query_all", "query_all_next", "query_all_from"}

\* The records of a list.
RecordsOf(l) == {l[i] : i \in DOMAIN l}

\* The list is in ascending created_at order.
ByCreatedAt(l) ==
    \A i \in 1..(Len(l) - 1) : l[i].created_at <= l[i + 1].created_at

\* A repository's tasks in the order its query gives them by default.
InQueryOrder(tasks) == SortedFiltered(tasks, DefaultArgs(DefaultLimit))

\* The first n elements of a list, all of them when it has fewer.
FirstOf(l, n) == SubSeq(l, 1, IF n < Len(l) THEN n ELSE Len(l))

----------------------------------------------------------------------------
(* C28 *)

\* C28: with a limit of at least 1 and no status filter, the pages read by
\* threading the cursor of query_all_tasks until it is absent hold, one
\* after the other, every record of the active repository and then every
\* record of the archive, each once, each part in created_at order.
C28_FederatedCoversAll ==
    (ReadingAll /\ qArgs.limit >= 1 /\ qArgs.filter_status = NoFilter) =>
        /\ exc = "none"
        /\ ~qNext.given =>
            LET all == Concat(qAcc)
                fromActive == FirstOf(all, Len(active))
                fromArchive == SubSeq(all, Len(active) + 1, Len(all))
            IN  /\ Len(all) = Len(active) + Len(archive)
                /\ RecordsOf(fromActive) = RecordsOf(active)
                /\ RecordsOf(fromArchive) = RecordsOf(archive)
                /\ ByCreatedAt(fromActive) /\ ByCreatedAt(fromArchive)

\* C28 as amended: with a limit of at least 1 and no status filter, the
\* pages read by threading the cursor until it is absent are, one after the
\* other, the first limit tasks of the active repository in created_at order
\* (all of them when it holds fewer) followed, only when the active
\* repository holds fewer than limit tasks, by every task of the archive in
\* created_at order; until then they are a prefix of that list.
C28_FirstActivePageThenArchive ==
    (ReadingAll /\ qArgs.limit >= 1 /\ qArgs.filter_status = NoFilter) =>
        LET all == Concat(qAcc)
            whole == FirstOf(InQueryOrder(active), qArgs.limit)
                        \o (IF Len(active) < qArgs.limit
                            THEN InQueryOrder(archive) ELSE <<>>)
        IN  /\ exc = "none"
            /\ all = FirstOf(whole, Len(all))
            /\ ByCreatedAt(FirstOf(all, Len(active)))
            /\ ByCreatedAt(SubSeq(all, Len(active) + 1, Len(all)))
            /\ ~qNext.given <=> all = whole

\* A pass of two pages ended: the first held the one active task and an
\* archive task, the second the other archive task.
C28_Witness ==
    /\ lastOp = "query_all_next" /\ exc = "none" /\ ~qNext.given
    /\ qArgs.limit >= 1 /\ qArgs.filter_status = NoFilter
    /\ Len(active) = 1 /\ Len(archive) = 2
    /\ Len(qAcc) = 2
    /\ Concat(qAcc) = active \o InQueryOrder(archive)

----------------------------------------------------------------------------
(* C29 *)

\* C29: a cursor that query_all_tasks returns is the last_id of a task the
\* archive holds; a call given a cursor returns records of the archive only,
\* none of the active repository; and no call returns more than limit tasks.
C29_ArchiveCursor ==
    (AfterQueryAll /\ exc = "none") =>
        /\ qNext.given => Contains(archive, qNext.last_id)
        /\ qKey.given =>
                /\ RecordsOf(qPage) \subseteq RecordsOf(archive)
                /\ RecordsOf(qPage) \cap RecordsOf(active) = {}
        /\ Len(qPage) <= qArgs.limit

\* A call given the cursor of the first page, which held an active task,
\* returned an archive task.
C29_Witness ==
    /\ lastOp = "query_all_next" /\ exc = "none"
    /\ qKey.given /\ Contains(archive, qKey.last_id)
    /\ active # <<>> /\ qPage # <<>>
    /\ Len(qAcc) = 2 /\ RecordsOf(qAcc[1]) \cap RecordsOf(active) # {}

----------------------------------------------------------------------------
(* C31 *)

\* C31: the tasks get_next_task has returned since the last refill that
\* selected a batch, that refill's first, followed by the tasks in the
\* cache, are the batch in the strategy's order; a call that finds the cache
\* non-empty asks neither the repositories nor the strategy, so a refill
\* happens only on a call that finds the cache empty; and no other call
\* changes the cache.
C31_FifoBatch ==
    [][ /\ batch' = served' \o next_tasks_to_run'
        /\ (lastOp' = "get_next_task" /\ next_tasks_to_run # <<>>) =>
                /\ calls'.query = 0 /\ calls'.select = 0
                /\ ret' = Head(next_tasks_to_run)
        /\ (lastOp' = "get_next_task" /\ calls'.select = 1) =>
                next_tasks_to_run = <<>>
        /\ lastOp' # "get_next_task" => UNCHANGED next_tasks_to_run
      ]_vars

\* A batch of two was selected; the refill returned its first task, a task
\* was reported in between, and the next call returned its second task.
C31_Witness ==
    /\ AfterGetNext /\ exc = "none" /\ calls.select = 0
    /\ Len(batch) = 2 /\ served = batch /\ ret = batch[2]
    /\ next_tasks_to_run = <<>>
    /\ InActive(batch[1].task_id) = None

----------------------------------------------------------------------------
(* C33 *)

\* C33: whenever get_next_task returns a task, get_task_by_id of its id
\* gives a stored task with status RUNNING, also when update_task calls came
\* between the refill that cached the task and the call that returns it.
C33_LiveRunning ==
    (AfterGetNext /\ exc = "none" /\ ret # None) =>
        /\ get_task_by_id(Svc, ret.task_id) # None
        /\ get_task_by_id(Svc, ret.task_id).status = "RUNNING"

----------------------------------------------------------------------------
(* C34 *)

\* C34: a get_next_task call of the one scheduler does not return a task_id
\* that an earlier get_next_task call returned unless an update_task call
\* set that id to NEW or PENDING after that earlier return.
C34_NoDoubleDispatch ==
    [][ (lastOp' = "get_next_task" /\ exc' = "none" /\ ret' # None) =>
            <<"scheduler", ret'.task_id>> \notin dispatched
      ]_vars

----------------------------------------------------------------------------
(* C32 *)

\* The id is stored in one of the two repositories of the service.
StillStored(task_id) == Contains(active, task_id) \/ Contains(archive, task_id)

\* C32: no repository write of an update_task call removes the last stored
\* copy of a task id: an id stored before a write is stored after it, so
\* between the writes every id stored before the call is still stored; and
\* between the writes the id of the call is in the repository its new status
\* belongs to.
C32_NoLossDuringMigration ==
    [][ lastOp' = "update_task" =>
            /\ \A id \in TaskIds : StillStored(id) => StillStored(id)'
            /\ pc' = "delete" =>
                    IF lastArg'.status \in finished_statuses
                    THEN Contains(archive', lastArg'.task_id)
                    ELSE Contains(active', lastArg'.task_id)
      ]_vars

\* Between the two writes of a call that archives a task of the active
\* repository the id is in both repositories.
C32_Witness ==
    /\ lastOp = "update_task" /\ pc = "delete"
    /\ lastIn = {"active"}
    /\ Contains(active, lastArg.task_id) /\ Contains(archive, lastArg.task_id)

----------------------------------------------------------------------------
(* C35 *)

\* The ids a refill of either scheduler has marked RUNNING: those handed out
\* and those waiting in a cache.
MarkedByRefill ==
    {d[2] : d \in dispatched} \cup IdsOf(next_tasks_to_run) \cup IdsOf(peer_tasks_to_run)

\* C35: with two schedulers on one data service whose get_next_task calls do
\* not overlap and no update_task call of a caller, no task id is returned by
\* both schedulers, and a refill never selects a task that a refill of either
\* scheduler has marked RUNNING before.
C35_PeersNeverShare ==
    [][ /\ \A id \in TaskIds :
               ~(<<"scheduler", id>> \in dispatched' /\ <<"peer", id>> \in dispatched')
        /\ (lastOp' = "get_next_task" /\ calls'.select = 1) =>
               IdsOf(selected') \cap MarkedByRefill = {}
      ]_vars

\* The second scheduler has refilled and returned a task after the first
\* scheduler had returned another one.
C35_Witness ==
    /\ AfterGetNext /\ exc = "none" /\ calls.select = 1
    /\ ret # None /\ <<"peer", ret.task_id>> \in dispatched
    /\ \E id \in TaskIds \ {ret.task_id} : <<"scheduler", id>> \in dispatched

----------------------------------------------------------------------------
(* C36 *)

\* The stored task that the id resolves to does not block: it is absent,
\* COMPLETED or CANCELLED.
ResolvesFree(task) ==
    task = None \/ task.status \notin {"NEW", "PENDING", "RUNNING", "FAILED"}

\* C36: when a refill has selected tasks and marked them RUNNING, no id in
\* the blocked_by of a selected task resolves to a stored task with status
\* NEW, PENDING, RUNNING or FAILED, neither when the refill starts nor when it
\* has marked the batch, and no selected task is a prerequisite of another
\* task of the same batch.
C36_DependencySafety ==
    [][ (lastOp' = "get_next_task" /\ calls'.select = 1) =>
            \A k \in DOMAIN selected' : \A b \in selected'[k].blocked_by :
                /\ ResolvesFree(get_task_by_id(Svc, b))
                /\ ResolvesFree(get_task_by_id(Svc, b)')
                /\ b \notin IdsOf(selected')
      ]_vars

\* A refill has marked a task RUNNING whose prerequisite is stored as
\* COMPLETED.
C36_Witness ==
    /\ AfterGetNext /\ exc = "none" /\ calls.select = 1
    /\ \E k \in DOMAIN selected :
          /\ selected[k].blocked_by = {1}
          /\ InActive(selected[k].task_id) # None
          /\ InActive(selected[k].task_id).status = "RUNNING"
          /\ get_task_by_id(Svc, 1) # None
          /\ get_task_by_id(Svc, 1).status = "COMPLETED"

----------------------------------------------------------------------------
(* C37 *)

\* The (priority, created_at) of u is strictly smaller than that of t.
MoreUrgent(u, t) ==
    \/ u.priority < t.priority
    \/ (u.priority = t.priority /\ u.created_at < t.created_at)

\* The tasks stored as NEW or PENDING that no dependency blocks.
Waiting ==
    {u \in {get_task_by_id(Svc, id) : id \in TaskIds} \ {None} :
        /\ u.status \in {"NEW", "PENDING"}
        /\ ~is_task_blocked_by_dependency(Svc, u)}

----------------------------------------------------------------------------
(* C38 *)

\* The id resolves to a stored NEW or PENDING task all of whose blocked_by
\* ids resolve to absent, COMPLETED or CANCELLED tasks.
Eligible(task_id) ==
    LET task == get_task_by_id(Svc, task_id)
    IN  /\ task # None
        /\ task.status \in {"NEW", "PENDING"}
        /\ \A b \in task.blocked_by :
              \/ get_task_by_id(Svc, b) = None
              \/ get_task_by_id(Svc, b).status \in {"COMPLETED", "CANCELLED"}

\* The last call was a get_next_task that returned the task of the id.
ReturnedId(task_id) ==
    AfterGetNext /\ exc = "none" /\ ret # None /\ ret.task_id = task_id

\* The last call was a get_next_task that returned absent.
ReturnedAbsent == AfterGetNext /\ exc = "none" /\ ret = None

\* C38: once the callers are silent and get_next_task is called again and
\* again, every stored unblocked NEW or PENDING task is eventually returned,
\* and from some point on every get_next_task call returns absent.
C38_EventualDispatch ==
    /\ \A id \in TaskIds : (quiet /\ Eligible(id)) ~> ReturnedId(id)
    /\ quiet ~> []ReturnedAbsent

----------------------------------------------------------------------------
(* C39 *)

\* The tasks a get_next_task call that ended has marked RUNNING: the
\* selection of a refill.
MarkedBy(sel, c) == IF c.select = 1 THEN sel ELSE <<>>

\* What a call that returned task r has taken out of the cache.
TakenOut(r) == IF r = None THEN <<>> ELSE <<r>>

\* C39: every get_next_task call that returns leaves in the cache the tasks
\* that were in it and the tasks it marked RUNNING, but the task it returns;
\* no id is in the cache twice, the cache holds at most 9 tasks, and no other
\* call changes the cache.  So the cache holds, once each, the marked tasks
\* not yet returned.
C39_NotStranded ==
    [][ /\ (lastOp' = "get_next_task" /\ exc' = "none") =>
              /\ next_tasks_to_run \o MarkedBy(selected', calls')
                    = TakenOut(ret') \o next_tasks_to_run'
              /\ EachOnce(next_tasks_to_run')
              /\ Len(next_tasks_to_run') <= 9
        /\ (lastOp' # "get_next_task" \/ exc' # "none") => UNCHANGED next_tasks_to_run
      ]_vars

\* A refill has marked ten tasks, returned one and left nine in the cache.
C39_Witness ==
    /\ AfterRefill /\ exc = "none" /\ ret # None
    /\ Len(selected) = 10
    /\ Len(next_tasks_to_run) = 9
    /\ \A k \in DOMAIN next_tasks_to_run :
          InActive(next_tasks_to_run[k].task_id).status = "RUNNING"

----------------------------------------------------------------------------
(* C40 *)

\* C40: after any sequence of add_task and update_task calls,
\* get_task_by_id of an id is the record of the latest add_task or
\* update_task call for that id that raised nothing, and None when there was
\* none; a get_task_by_id call returns just that.
C40_ReadYourWrites ==
    /\ \A id \in TaskIds : get_task_by_id(Svc, id) = written[id]
    /\ lastOp = "get_task_by_id" => ret = written[lastArg.task_id]

\* get_task_by_id has returned the new record of an id that was added again
\* while the archive holds its completed record.
C40_Witness ==
    /\ lastOp = "get_task_by_id" /\ ret # None
    /\ ret.status = "NEW" /\ ret = written[ret.task_id]
    /\ Contains(active, ret.task_id) /\ Contains(archive, ret.task_id)

====
